---- MODULE Spec2Model ----
(***************************************************************************)
(* Delivery core of the chat backend: the per-recipient event queue        *)
(* (event_queue.py, EventQueueService over the db.events collection), the  *)
(* connection registry (websocket_manager.py, ConnectionManager) and the   *)
(* two entry points that drive them (main.py: POST /api/events and the     *)
(* /ws/{user_id} endpoint).                                                *)
(*                                                                         *)
(* Every `await` of the Python code is a point where another coroutine can *)
(* run, so each handler is cut into one action per await: the effect of a  *)
(* database command, the effect of a socket write, or the code that runs   *)
(* between two awaits.  The asyncio lock of the registry is only ever held *)
(* between two awaits, so a locked block is one action: it finds the lock  *)
(* free (an uncontended acquire does not suspend) and leaves it free.      *)
(***************************************************************************)
EXTENDS Integers, Sequences, FiniteSets, TLC

\* ---------------------------------------------------------------- bounds
MaxSubmits == 2     \* POST /api/events requests accepted over a run
TickDays   == 14    \* granularity of the clock, in days
MaxNow     == 42    \* last day the clock reaches
FanoutSubmits  == 1 \* submissions in SpecFanout
MaxPings   == 1     \* ping frames answered per connection
FramesBacklog  == 1 \* events pending at the start of SpecFrames
BacklogSubmits == 1 \* submissions in SpecBacklog
ChatSends == 2      \* frames the chat clients send in SpecChat

\* ------------------------------------------------------ program constants
EventTtlDays == 14  \* config.py: Settings.event_ttl_days
DefaultLimit == 100 \* event_queue.py: get_pending_events(limit = 100)

Users    == {"u1", "u2"}
Sessions == {"s1", "s2"}        \* WebSocket objects, one per connection
Procs    == {"p1", "p2"}        \* handlers of POST /api/events
EventIds == {1, 2}              \* event_id values of the posted events
Senders  == {"u2"}               \* sender_id of the posted events
Payloads == {"c1"}               \* encrypted_payload, opaque to the server
Metadatas == {"m1"}              \* metadata, opaque to the server
EventTypes == {"MESSAGE"}
ClientTimestamps == {0}

\* Ids of the events already queued in the initial state of SpecBacklog.
PreloadId(i) == 3 + i
\* Ids a client may name in an ACK frame: the posted ids, an id nobody
\* posted and the first id of the backlog.
AckIds == EventIds \cup {3, PreloadId(1)}

VARIABLES
    store,               \* db.events: the set of stored documents
    now,                 \* datetime.utcnow(), in days
    active_connections,  \* ConnectionManager.active_connections (a dict)
    wsState,             \* per WebSocket: where its endpoint coroutine stands
    wsUser,              \* per WebSocket: the user_id of its path
    wsAlive,             \* per WebSocket: the transport still accepts writes
    pending_events,      \* per WebSocket: the list _send_pending_events read
    sent,                \* per WebSocket: how far its loop over the list got
    written,             \* per WebSocket: the frames written to it, in order
    pc,                  \* per request handler: where it stands
    event,               \* per request handler: the Event of the request
    connections,         \* per request handler: send_event's snapshot
    todo,                \* per request handler: snapshot members not yet tried
    disconnected,        \* per request handler: send_event's `disconnected`
    event_doc,           \* per request handler: enqueue_event's event_doc
    response,            \* per request handler: the last HTTP response
    lastAck,             \* the last ACK handled and acknowledge_event's result
    inserted,            \* history: the documents inserted, in order
    queued,              \* history: the documents reported as queued
    ackMark,             \* history: Len(inserted) at the last successful ACK
    acked,               \* history: <<event_id, recipient>> pairs deleted by ACK
    backfilled,          \* history: per WebSocket, the queued documents
                         \* that were pending at its read
    budget,              \* submissions the clients still make
    observe,             \* which of the histories this run records
    lock,                \* ConnectionManager._lock: "free" or its holder
    deleted_count,       \* the count the last cleanup_expired_events returned
    read_failed,         \* history: the WebSockets whose backfill read raised
    outcomes,            \* history: what the store operations returned
    lastFrame,           \* the last client frame that got no answer, and
                         \* the except clause that logged it
    manager,             \* app/core/websocket.py: manager.active_connections,
                         \* user_id -> list of WebSockets
    chatPc,              \* per chat WebSocket: where its endpoint stands
    chatAlive,           \* per chat WebSocket: its client is still there
    message_doc,         \* per chat WebSocket: the message being handled
    chatIter,            \* per chat WebSocket: the position of the send loops
    chatReceived,        \* per chat WebSocket: the messages written to it
    messages,            \* db.messages, in insertion order
    chatBudget           \* frames the chat clients still send

vars == <<store, now, active_connections, wsState, wsUser, wsAlive,
          pending_events, sent, written, pc, event, event_doc, connections,
          todo, disconnected, response, lastAck, inserted, queued, ackMark,
          acked, backfilled, budget, observe, lock, deleted_count,
          read_failed, outcomes, lastFrame, manager, chatPc, chatAlive,
          message_doc, chatIter, chatReceived, messages, chatBudget>>

wsVars   == <<wsState, wsUser, wsAlive, pending_events, sent, written,
              backfilled>>
reqVars  == <<pc, event, event_doc, connections, todo, disconnected,
              response, budget, observe>>
histVars == <<lastAck, inserted, queued, ackMark, acked>>
chatVars == <<manager, chatPc, chatAlive, message_doc, chatIter,
              chatReceived, messages, chatBudget>>
auxVars  == <<lock, deleted_count, read_failed, outcomes, lastFrame, chatVars>>
coreVars == <<store, now, active_connections, wsVars, reqVars, histVars,
              lock, deleted_count, read_failed, outcomes, lastFrame>>

\* ----------------------------------------------------------------- helpers
Min(a, b) == IF a < b THEN a ELSE b

SetMax(S) == CHOOSE x \in S : \A y \in S : y <= x

NoEvent == [event_id |-> 0]
NoDoc == [event_id |-> <<>>]
NoResponse == [status |-> 0]
NoAck == [ws |-> "none"]
NoFrame == [ws |-> "none"]
None == [event_id |-> "None"]

\* str(event.event_id) and UUID(doc["event_id"]): the stored form of an id is
\* its string, the Event form is the UUID.
UuidToStr(id) == <<"uuid", id>>
StrToUuid(s) == s[2]

\* Event(**doc): the Event fields of a stored document (the extra keys
\* ttl_expiry and acknowledged are dropped, event_id is parsed back).
DocToEvent(doc) ==
    [event_id          |-> StrToUuid(doc.event_id),
     recipient_id      |-> doc.recipient_id,
     sender_id         |-> doc.sender_id,
     event_type        |-> doc.event_type,
     sequence          |-> doc.sequence,
     timestamp         |-> doc.timestamp,
     metadata          |-> doc.metadata,
     encrypted_payload |-> doc.encrypted_payload]

\* event.model_dump() plus the three keys enqueue_event sets.
EventToDoc(ev, ttl) ==
    [event_id          |-> UuidToStr(ev.event_id),
     recipient_id      |-> ev.recipient_id,
     sender_id         |-> ev.sender_id,
     event_type        |-> ev.event_type,
     sequence          |-> ev.sequence,
     timestamp         |-> ev.timestamp,
     metadata          |-> ev.metadata,
     encrypted_payload |-> ev.encrypted_payload,
     ttl_expiry        |-> ttl,
     acknowledged      |-> FALSE]

\* The Event bodies a client can post.
Requests ==
    [event_id : EventIds, recipient_id : Users, sender_id : Senders,
     event_type : EventTypes, sequence : {0}, timestamp : ClientTimestamps,
     metadata : Metadatas, encrypted_payload : Payloads]

\* The history of the store operations, with what the operation op returned
\* to its caller and whether it went through its except clause.
Recorded(op, result, raised) ==
    IF "outcome" \in observe
    THEN outcomes \cup {[op |-> op, result |-> result, raised |-> raised]}
    ELSE outcomes

\* ------------------------------------------------------------ Event Store
\* The documents find/find_one/delete_one see for a recipient_id filter.
DocsOf(user_id) == {d \in store : d.recipient_id = user_id}

\* A faulty sequence, counted over the events of all recipients.
NextSequenceGlobal(user_id) ==
    IF store = {} THEN 1 ELSE SetMax({d.sequence : d \in store}) + 1

\* enqueue_event, lines 33-38: find_one sorted by sequence descending, then
\* last_event["sequence"] + 1, or 1 when the recipient has no document.
NextSequence(user_id) ==
    IF DocsOf(user_id) = {} THEN 1
    ELSE SetMax({d.sequence : d \in DocsOf(user_id)}) + 1

\* enqueue_event, lines 39-52: the Event as completed and its document.
StampedEvent(ev, seq) ==
    [ev EXCEPT !.sequence = seq,
               !.timestamp = IF ev.timestamp = 0 THEN now * 1000
                             ELSE ev.timestamp]

\* A faulty store, with no unique index on event_id: no insert is refused.
InsertRaisesNever(doc) == FALSE

\* The unique index on event_id makes insert_one raise on a duplicate.
InsertRaises(doc) == \E d \in store : d.event_id = doc.event_id

\* All the orders in which a sort on sequence can return the documents D:
\* ascending in sequence, documents with equal sequence in any order.
SortedBySequence(D) ==
    LET tied == IF Cardinality({d.sequence : d \in D}) = Cardinality(D)
                THEN {}
                ELSE {d \in D : \E x \in D : x # d /\ x.sequence = d.sequence}
        tieBreaks == {f \in [tied -> 1 .. Cardinality(tied)] :
                         \A a, b \in tied : a # b => f[a] # f[b]}
        Before(x, d, f) ==
            \/ x.sequence < d.sequence
            \/ x.sequence = d.sequence /\ x # d /\ f[x] < f[d]
        Order(f) ==
            LET placed == {<<1 + Cardinality({x \in D : Before(x, d, f)}), d>> :
                             d \in D}
            IN  [i \in 1 .. Cardinality(D) |->
                    (CHOOSE pd \in placed : pd[1] = i)[2]]
    IN  {Order(f) : f \in tieBreaks}

\* A faulty filter for get_pending_events, which leaves out the documents
\* past their ttl_expiry.
PendingDocsUnexpired(user_id) ==
    {d \in store : /\ d.recipient_id = user_id
                   /\ d.acknowledged = FALSE
                   /\ d.ttl_expiry >= now}

\* A faulty filter for get_pending_events, without the recipient_id.
PendingDocsAllRecipients(user_id) ==
    {d \in store : d.acknowledged = FALSE}

\* The filter of get_pending_events.
PendingDocs(user_id) ==
    {d \in store : d.recipient_id = user_id /\ d.acknowledged = FALSE}

\* A faulty get_pending_events, sorting on sequence descending.
get_pending_events_descending(user_id, limit) ==
    {[i \in 1 .. Min(limit, Len(docs)) |-> DocToEvent(docs[Len(docs) + 1 - i])] :
        docs \in SortedBySequence(PendingDocs(user_id))}

\* get_pending_events(user_id, limit): the possible results, each a list of
\* Events (sort on sequence ascending, limit, Event(**doc)).
get_pending_events(user_id, limit) ==
    {[i \in 1 .. Min(limit, Len(docs)) |-> DocToEvent(docs[i])] :
        docs \in SortedBySequence(PendingDocs(user_id))}

\* A faulty filter for acknowledge_event, without the event_id.
AckMatchesRecipientOnly(event_id, recipient_id) ==
    {d \in store : d.recipient_id = recipient_id}

\* A faulty filter for acknowledge_event and get_event_by_id, without the
\* recipient_id.
AckMatchesAnyRecipient(event_id, recipient_id) ==
    {d \in store : d.event_id = UuidToStr(event_id)}

\* The filter of acknowledge_event's delete_one and of get_event_by_id's
\* find_one.
AckMatches(event_id, recipient_id) ==
    {d \in store : d.event_id = UuidToStr(event_id)
                   /\ d.recipient_id = recipient_id}

\* get_event_by_id(event_id, recipient_id): the possible results, the Event
\* of a document matching both keys, or None.
get_event_by_id(event_id, recipient_id) ==
    IF AckMatches(event_id, recipient_id) = {} THEN {None}
    ELSE {DocToEvent(d) : d \in AckMatches(event_id, recipient_id)}

\* A faulty filter for cleanup_expired_events, with $lte for $lt.
ExpiredInclusive(t) == {d \in store : d.ttl_expiry <= t}

\* The filter of cleanup_expired_events' delete_many.
Expired(t) == {d \in store : d.ttl_expiry < t}

\* ---------------------------------------------------- Connection Registry
\* A faulty snapshot, leaving out the sessions whose connect is still running.
SnapshotLive(user_id) ==
    IF user_id \in DOMAIN active_connections
    THEN {ws \in active_connections[user_id] : wsState[ws] = "live"}
    ELSE {}

\* self.active_connections.get(user_id, set()).copy()
Snapshot(user_id) ==
    IF user_id \in DOMAIN active_connections
    THEN active_connections[user_id] ELSE {}

\* connect, lines 36-38.
Registered(ws, user_id) ==
    IF user_id \in DOMAIN active_connections
    THEN [active_connections EXCEPT ![user_id] = @ \cup {ws}]
    ELSE [u \in DOMAIN active_connections \cup {user_id} |->
             IF u = user_id THEN {ws} ELSE active_connections[u]]

\* A faulty disconnect, dropping the user's entry with all its sessions.
UnregisteredWholeUser(ws, user_id) ==
    [u \in DOMAIN active_connections \ {user_id} |-> active_connections[u]]

\* disconnect, lines 57-62.
Unregistered(ws, user_id) ==
    IF user_id \notin DOMAIN active_connections THEN active_connections
    ELSE IF active_connections[user_id] \ {ws} = {}
         THEN [u \in DOMAIN active_connections \ {user_id} |->
                  active_connections[u]]
         ELSE [active_connections EXCEPT ![user_id] = @ \ {ws}]

\* A faulty cleanup, without the test for the user's key: it leaves an entry
\* for a user who has none.
CleanedRecreates(user_id, dead) ==
    IF dead # {}
    THEN [u \in DOMAIN active_connections \cup {user_id} |->
             IF u = user_id THEN Snapshot(user_id) \ dead
             ELSE active_connections[u]]
    ELSE active_connections

\* A faulty cleanup, dropping every socket of the user once a write failed.
CleanedAll(user_id, dead) ==
    IF dead # {} /\ user_id \in DOMAIN active_connections
    THEN [active_connections EXCEPT ![user_id] = {}]
    ELSE active_connections

\* send_event, lines 98-102: the cleanup of the sockets whose write failed.
Cleaned(user_id, dead) ==
    IF dead # {} /\ user_id \in DOMAIN active_connections
    THEN [active_connections EXCEPT ![user_id] = @ \ dead]
    ELSE active_connections

\* A faulty result, true whenever the snapshot was not empty.
DeliveredAny(conns, dead) == conns # {}

\* send_event, line 104.
Delivered(conns, dead) == Cardinality(conns) > Cardinality(dead)

\* A faulty response, reporting every event as queued.
SuccessResponseQueued(ev, delivered) ==
    [status |-> 200, event_id |-> ev.event_id, delivered |-> delivered,
     queued |-> TRUE]

\* send_event (main.py), lines 246-251: the body of the success response.
SuccessResponse(ev, delivered) ==
    [status |-> 200, event_id |-> ev.event_id, delivered |-> delivered,
     queued |-> ~delivered]

\* A frame as the client sees it: the Event and the path that wrote it.
Frame(ev, kind) == [event |-> ev, kind |-> kind]

\* ------------------------------------------------------------------ Init
\* The store after n sequential submissions to user_id on the first day,
\* none acknowledged.
Preloaded(user_id, n) ==
    {[event_id          |-> UuidToStr(PreloadId(i)),
      recipient_id      |-> user_id,
      sender_id         |-> "u2",
      event_type        |-> "MESSAGE",
      sequence          |-> i,
      timestamp         |-> TickDays * 1000,
      metadata          |-> "m1",
      encrypted_payload |-> "c1",
      ttl_expiry        |-> TickDays + EventTtlDays,
      acknowledged      |-> FALSE] : i \in 1 .. n}

\* -------------------------------------------------- legacy chat route
\* app/routes/chat.py with the ConnectionManager of app/core/websocket.py.
\* The WebSockets of the chat route, and the user_id of the path each one
\* connects with.
ChatSockets == {"w1", "w2", "w3"}
ChatUsers == {"a", "b"}
ChatUserOf(ws) == IF ws = "w1" THEN "a" ELSE "b"

\* db.groups: the members of the one group; "g0" is the id of no group.
GroupIds == {"g1", "g0"}
find_group(group_id) == IF group_id = "g1" THEN <<"a", "b">> ELSE <<>>

NoMessage == [sender_id |-> "none"]
NoIter == [target |-> "none"]

\* The well-formed frames a chat client sends: a personal message or a
\* group message.
ChatFrames ==
    {[kind |-> "personal", receiver_id |-> u, group_id |-> "none"] :
        u \in ChatUsers}
    \cup {[kind |-> "group", receiver_id |-> "none", group_id |-> g] :
             g \in GroupIds}

\* ConnectionManager.__init__ and the chat endpoints before any connection.
ChatInit ==
    /\ manager = [u \in {} |-> <<>>]
    /\ chatPc = [ws \in ChatSockets |-> "idle"]
    /\ chatAlive = [ws \in ChatSockets |-> TRUE]
    /\ message_doc = [ws \in ChatSockets |-> NoMessage]
    /\ chatIter = [ws \in ChatSockets |-> NoIter]
    /\ chatReceived = [ws \in ChatSockets |-> <<>>]
    /\ messages = <<>>
    /\ chatBudget = ChatSends

\* The state after start-up, with docs in the store, n submissions to come
\* and the histories obs recorded.
InitWith(docs, n, obs) ==
    /\ store = docs
    /\ now = TickDays
    /\ active_connections = [u \in {} |-> {}]
    /\ wsState = [ws \in Sessions |-> "idle"]
    /\ wsUser = [ws \in Sessions |-> "none"]
    /\ wsAlive = [ws \in Sessions |-> TRUE]
    /\ pending_events = [ws \in Sessions |-> <<>>]
    /\ sent = [ws \in Sessions |-> 0]
    /\ written = [ws \in Sessions |-> <<>>]
    /\ pc = [p \in Procs |-> "idle"]
    /\ event = [p \in Procs |-> NoEvent]
    /\ event_doc = [p \in Procs |-> NoDoc]
    /\ connections = [p \in Procs |-> {}]
    /\ todo = [p \in Procs |-> {}]
    /\ disconnected = [p \in Procs |-> {}]
    /\ response = [p \in Procs |-> NoResponse]
    /\ lastAck = NoAck
    /\ inserted = <<>>
    /\ queued = {}
    /\ ackMark = 0
    /\ acked = {}
    /\ backfilled = [ws \in Sessions |-> {}]
    /\ budget = n
    /\ observe = obs
    /\ lock = "free"
    /\ deleted_count = 0
    /\ read_failed = {}
    /\ outcomes = {}
    /\ lastFrame = NoFrame
    /\ ChatInit

Init == InitWith({}, MaxSubmits, {})

\* ------------------------------------------------- POST /api/events (main.py)
\* A faulty handler, without the sender check.
SendEventRequestUnchecked(p, ev, current_user) ==
    /\ pc[p] = "idle"
    /\ budget > 0
    /\ budget' = budget - 1
    /\ response' = [response EXCEPT ![p] = NoResponse]
    /\ pc' = [pc EXCEPT ![p] = "find"]
    /\ event' = [event EXCEPT ![p] = ev]
    /\ UNCHANGED <<auxVars, store, now, active_connections, wsVars, event_doc,
                   connections, todo, disconnected, observe, histVars>>

\* send_event, lines 229-239: the sender check, up to the first await.
SendEventRequest(p, ev, current_user) ==
    /\ pc[p] = "idle"
    /\ budget > 0
    /\ budget' = budget - 1
    /\ IF ev.sender_id # current_user
       THEN /\ response' = [response EXCEPT ![p] = [status |-> 403]]
            /\ UNCHANGED <<pc, event>>
       ELSE /\ response' = [response EXCEPT ![p] = NoResponse]
            /\ pc' = [pc EXCEPT ![p] = "find"]
            /\ event' = [event EXCEPT ![p] = ev]
    /\ UNCHANGED <<auxVars, store, now, active_connections, wsVars, event_doc,
                   connections, todo, disconnected, observe, histVars>>

\* A faulty enqueue_event, stamping a copy of the envelope: the document
\* gets the sequence and the timestamp, the request's envelope keeps the
\* values the client posted.
EnqueueFindOnCopy(p) ==
    /\ pc[p] = "find"
    /\ LET ev == StampedEvent(event[p], NextSequence(event[p].recipient_id))
       IN  event_doc' = [event_doc EXCEPT
                           ![p] = EventToDoc(ev, now + EventTtlDays)]
    /\ pc' = [pc EXCEPT ![p] = "insert"]
    /\ UNCHANGED <<auxVars, store, now, active_connections, wsVars, event,
                   connections, todo, disconnected, response, budget, observe,
                   histVars>>

\* enqueue_event, lines 33-52: the find_one and the code up to insert_one.
EnqueueFind(p) ==
    /\ pc[p] = "find"
    /\ LET ev == StampedEvent(event[p], NextSequence(event[p].recipient_id))
       IN  /\ event' = [event EXCEPT ![p] = ev]
           /\ event_doc' = [event_doc EXCEPT
                              ![p] = EventToDoc(ev, now + EventTtlDays)]
    /\ pc' = [pc EXCEPT ![p] = "insert"]
    /\ UNCHANGED <<auxVars, store, now, active_connections, wsVars, connections, todo,
                   disconnected, response, budget, observe, histVars>>

\* enqueue_event, lines 54-64, and send_event (main.py), lines 239-241: the
\* insert_one; when it raises, enqueue_event returns False and the request
\* ends with status 500.
EnqueueInsert(p) ==
    /\ pc[p] = "insert"
    /\ IF InsertRaises(event_doc[p])
       THEN /\ response' = [response EXCEPT ![p] = [status |-> 500]]
            /\ pc' = [pc EXCEPT ![p] = "idle"]
            /\ event' = [event EXCEPT ![p] = NoEvent]
            /\ event_doc' = [event_doc EXCEPT ![p] = NoDoc]
            /\ UNCHANGED <<store, inserted>>
       ELSE /\ store' = store \cup {event_doc[p]}
            /\ inserted' = IF "inserted" \in observe
                           THEN Append(inserted, event_doc[p]) ELSE inserted
            /\ pc' = [pc EXCEPT ![p] = "push"]
            /\ UNCHANGED <<response, event, event_doc>>
    /\ UNCHANGED <<auxVars, now, active_connections, wsVars, connections, todo,
                   disconnected, budget, observe, lastAck, queued, ackMark,
                   acked>>

\* enqueue_event, lines 33-36 and 62-64, and send_event (main.py), lines
\* 239-241: the store cannot be reached, find_one raises, enqueue_event
\* returns False and the request ends with status 500.
EnqueueFindFails(p) ==
    /\ pc[p] = "find"
    /\ response' = [response EXCEPT ![p] = [status |-> 500]]
    /\ pc' = [pc EXCEPT ![p] = "idle"]
    /\ event' = [event EXCEPT ![p] = NoEvent]
    /\ UNCHANGED <<auxVars, store, now, active_connections, wsVars, event_doc,
                   connections, todo, disconnected, budget, observe, histVars>>

\* A faulty insert_one, which stores the document and then raises.
EnqueueInsertFailsAfterWrite(p) ==
    /\ pc[p] = "insert"
    /\ store' = store \cup {event_doc[p]}
    /\ response' = [response EXCEPT ![p] = [status |-> 500]]
    /\ pc' = [pc EXCEPT ![p] = "idle"]
    /\ event' = [event EXCEPT ![p] = NoEvent]
    /\ event_doc' = [event_doc EXCEPT ![p] = NoDoc]
    /\ UNCHANGED <<auxVars, now, active_connections, wsVars, connections, todo,
                   disconnected, budget, observe, histVars>>

\* enqueue_event, lines 54 and 62-64, and send_event (main.py), lines
\* 239-241: the store cannot be reached, insert_one raises and stores
\* nothing, enqueue_event returns False and the request ends with status 500.
EnqueueInsertFails(p) ==
    /\ pc[p] = "insert"
    /\ response' = [response EXCEPT ![p] = [status |-> 500]]
    /\ pc' = [pc EXCEPT ![p] = "idle"]
    /\ event' = [event EXCEPT ![p] = NoEvent]
    /\ event_doc' = [event_doc EXCEPT ![p] = NoDoc]
    /\ UNCHANGED <<auxVars, store, now, active_connections, wsVars,
                   connections, todo, disconnected, budget, observe, histVars>>

\* A faulty snapshot, keeping the lock for the writes that follow.
PushSnapshotKeepsLock(p) ==
    /\ pc[p] = "push"
    /\ lock = "free"
    /\ LET conns == Snapshot(event[p].recipient_id)
       IN  IF conns = {}
           THEN /\ response' = [response EXCEPT ![p] =
                                  SuccessResponse(event[p], FALSE)]
                /\ pc' = [pc EXCEPT ![p] = "idle"]
                /\ event' = [event EXCEPT ![p] = NoEvent]
                /\ event_doc' = [event_doc EXCEPT ![p] = NoDoc]
                /\ queued' = IF "queued" \in observe
                             THEN queued \cup {event_doc[p]} ELSE queued
                /\ UNCHANGED <<connections, todo, disconnected>>
           ELSE /\ connections' = [connections EXCEPT ![p] = conns]
                /\ todo' = [todo EXCEPT ![p] = conns]
                /\ disconnected' = [disconnected EXCEPT ![p] = {}]
                /\ pc' = [pc EXCEPT ![p] = "write"]
                /\ UNCHANGED <<response, event, event_doc, queued>>
    /\ lock' = p
    /\ UNCHANGED <<deleted_count, read_failed, outcomes, lastFrame, chatVars, store,
                   now, active_connections, wsVars, budget, observe, lastAck,
                   inserted, ackMark, acked>>

\* ConnectionManager.send_event, lines 76-87, and send_event (main.py), lines
\* 244-251 when the user is offline: the snapshot under the lock.
PushSnapshot(p) ==
    /\ pc[p] = "push"
    /\ lock = "free"
    /\ LET conns == Snapshot(event[p].recipient_id)
       IN  IF conns = {}
           THEN /\ response' = [response EXCEPT ![p] =
                                  SuccessResponse(event[p], FALSE)]
                /\ pc' = [pc EXCEPT ![p] = "idle"]
                /\ event' = [event EXCEPT ![p] = NoEvent]
                /\ event_doc' = [event_doc EXCEPT ![p] = NoDoc]
                /\ queued' = IF "queued" \in observe
                             THEN queued \cup {event_doc[p]} ELSE queued
                /\ UNCHANGED <<connections, todo, disconnected>>
           ELSE /\ connections' = [connections EXCEPT ![p] = conns]
                /\ todo' = [todo EXCEPT ![p] = conns]
                /\ disconnected' = [disconnected EXCEPT ![p] = {}]
                /\ pc' = [pc EXCEPT ![p] = "write"]
                /\ UNCHANGED <<response, event, event_doc, queued>>
    /\ UNCHANGED <<auxVars, store, now, active_connections, wsVars, budget, observe,
                   lastAck, inserted, ackMark, acked>>

\* A faulty turn of the loop, deleting the event once a session took it.
PushWriteDeletes(p, ws) ==
    /\ pc[p] = "write"
    /\ ws \in todo[p]
    /\ todo' = [todo EXCEPT ![p] = @ \ {ws}]
    /\ IF wsAlive[ws]
       THEN /\ written' = [written EXCEPT ![ws] =
                             Append(@, Frame(event[p], "push"))]
            /\ store' = store \ {event_doc[p]}
            /\ UNCHANGED disconnected
       ELSE /\ disconnected' = [disconnected EXCEPT ![p] = @ \cup {ws}]
            /\ UNCHANGED <<written, store>>
    /\ UNCHANGED <<auxVars, now, active_connections, wsState, wsUser, wsAlive,
                   pending_events, sent, backfilled, pc, event, event_doc,
                   connections, response, budget, observe, histVars>>

\* ConnectionManager.send_event, lines 89-95: one turn of the loop over the
\* snapshot, in the set's (arbitrary) iteration order.
PushWrite(p, ws) ==
    /\ pc[p] = "write"
    /\ ws \in todo[p]
    /\ todo' = [todo EXCEPT ![p] = @ \ {ws}]
    /\ IF wsAlive[ws]
       THEN /\ written' = [written EXCEPT ![ws] =
                             Append(@, Frame(event[p], "push"))]
            /\ UNCHANGED disconnected
       ELSE /\ disconnected' = [disconnected EXCEPT ![p] = @ \cup {ws}]
            /\ UNCHANGED written
    /\ UNCHANGED <<auxVars, store, now, active_connections, wsState, wsUser, wsAlive,
                   pending_events, sent, backfilled, pc, event, event_doc,
                   connections, response, budget, observe, histVars>>

\* ConnectionManager.send_event, lines 97-104, and send_event (main.py), lines
\* 246-251: the cleanup under the lock and the response.
PushCleanup(p) ==
    /\ pc[p] = "write"
    /\ todo[p] = {}
    /\ lock = "free"
    /\ active_connections' = Cleaned(event[p].recipient_id, disconnected[p])
    /\ LET delivered == Delivered(connections[p], disconnected[p])
       IN  /\ response' = [response EXCEPT ![p] =
                             SuccessResponse(event[p], delivered)]
           /\ queued' = IF ~delivered /\ "queued" \in observe
                        THEN queued \cup {event_doc[p]} ELSE queued
    /\ pc' = [pc EXCEPT ![p] = "idle"]
    /\ event' = [event EXCEPT ![p] = NoEvent]
    /\ event_doc' = [event_doc EXCEPT ![p] = NoDoc]
    /\ connections' = [connections EXCEPT ![p] = {}]
    /\ disconnected' = [disconnected EXCEPT ![p] = {}]
    /\ UNCHANGED <<auxVars, store, now, wsVars, todo, budget, observe, lastAck,
                   inserted, ackMark, acked>>

\* ------------------------------------------------ /ws/{user_id} (main.py)
\* connect, lines 33-38: accept and the registration under the lock.  Each
\* connection is a new WebSocket object: a name is taken again only once the
\* endpoint of the previous object has ended and no push still holds it.
Connect(ws, user_id) ==
    /\ wsState[ws] \in {"idle", "closed"}
    /\ \A p \in Procs : ws \notin connections[p]
    /\ wsState' = [wsState EXCEPT ![ws] = "registered"]
    /\ wsUser' = [wsUser EXCEPT ![ws] = user_id]
    /\ wsAlive' = [wsAlive EXCEPT ![ws] = TRUE]
    /\ written' = [written EXCEPT ![ws] = <<>>]
    /\ pending_events' = [pending_events EXCEPT ![ws] = <<>>]
    /\ sent' = [sent EXCEPT ![ws] = 0]
    /\ backfilled' = [backfilled EXCEPT ![ws] = {}]
    /\ lock = "free"
    /\ active_connections' = Registered(ws, user_id)
    /\ read_failed' = read_failed \ {ws}
    /\ UNCHANGED <<store, now, reqVars, histVars, lock, deleted_count,
                   outcomes, lastFrame, chatVars>>

\* connect, lines 41-43: after update_last_seen, the log line indexes
\* active_connections[user_id]; a missing key raises KeyError, which leaves
\* connect and the endpoint (the call is outside its try).
ConnectLog(ws) ==
    /\ wsState[ws] = "registered"
    /\ wsState' = [wsState EXCEPT ![ws] =
                     IF wsUser[ws] \in DOMAIN active_connections
                     THEN "fetch" ELSE "crashed"]
    /\ UNCHANGED <<auxVars, store, now, active_connections, wsUser, wsAlive,
                   pending_events, sent, written, backfilled, reqVars,
                   histVars>>

\* _send_pending_events, lines 115-118: the read of the pending events.
BackfillRead(ws) ==
    /\ wsState[ws] = "fetch"
    /\ \E evs \in get_pending_events(wsUser[ws], DefaultLimit) :
          /\ pending_events' = [pending_events EXCEPT ![ws] = evs]
          /\ wsState' = [wsState EXCEPT ![ws] =
                           IF evs = <<>> THEN "live" ELSE "backfill"]
          /\ outcomes' = Recorded("get_pending_events", evs, FALSE)
    /\ backfilled' =
          IF "backfilled" \in observe
          THEN [backfilled EXCEPT ![ws] =
                  PendingDocs(wsUser[ws]) \cap queued]
          ELSE backfilled
    /\ UNCHANGED <<lock, deleted_count, read_failed, lastFrame, chatVars, store, now,
                   active_connections, wsUser, wsAlive, sent, written,
                   reqVars, histVars>>

\* get_pending_events, lines 97-99, and _send_pending_events, lines 115-117:
\* the store cannot be read, get_pending_events logs and returns [], and
\* connect returns to the endpoint's receive loop.
BackfillReadFails(ws) ==
    /\ wsState[ws] = "fetch"
    /\ pending_events' = [pending_events EXCEPT ![ws] = <<>>]
    /\ wsState' = [wsState EXCEPT ![ws] = "live"]
    /\ read_failed' = read_failed \cup {ws}
    /\ outcomes' = Recorded("get_pending_events", <<>>, TRUE)
    /\ UNCHANGED <<store, now, active_connections, wsUser, wsAlive, sent,
                   written, backfilled, reqVars, histVars, lock,
                   deleted_count, lastFrame, chatVars>>

\* _send_pending_events, lines 120-125: one turn of the loop; a failed write
\* breaks out of it, and connect returns to the endpoint's receive loop.
BackfillWrite(ws) ==
    /\ wsState[ws] = "backfill"
    /\ IF wsAlive[ws]
       THEN /\ written' = [written EXCEPT ![ws] =
                             Append(@, Frame(pending_events[ws][sent[ws] + 1],
                                             "backfill"))]
            /\ sent' = [sent EXCEPT ![ws] = @ + 1]
            /\ wsState' = [wsState EXCEPT ![ws] =
                             IF sent[ws] + 1 = Len(pending_events[ws])
                             THEN "live" ELSE "backfill"]
       ELSE /\ wsState' = [wsState EXCEPT ![ws] = "live"]
            /\ UNCHANGED <<written, sent>>
    /\ UNCHANGED <<auxVars, store, now, active_connections, wsUser, wsAlive,
                   pending_events, backfilled, reqVars, histVars>>

\* A faulty acknowledge_event, which notes the ACK of the device and keeps
\* the document for the other devices.
ReceiveAckPerDevice(ws, event_id) ==
    /\ wsState[ws] = "live"
    /\ LET success == AckMatches(event_id, wsUser[ws]) # {}
       IN  /\ lastAck' = IF "ack" \in observe
                         THEN [ws |-> ws, event_id |-> event_id,
                               success |-> success]
                         ELSE lastAck
           /\ acked' = IF success /\ observe \cap {"ack", "acked"} # {}
                       THEN acked \cup {<<event_id, wsUser[ws]>>} ELSE acked
    /\ UNCHANGED <<auxVars, store, now, active_connections, wsVars, reqVars,
                   inserted, queued, ackMark>>

\* A faulty acknowledge_event, which marks the document as acknowledged
\* (update_one) and keeps it.
ReceiveAckMarks(ws, event_id) ==
    /\ wsState[ws] = "live"
    /\ LET found == AckMatches(event_id, wsUser[ws])
       IN  IF found # {}
           THEN \E d \in found :
                   store' = (store \ {d})
                               \cup {[d EXCEPT !.acknowledged = TRUE]}
           ELSE UNCHANGED store
    /\ UNCHANGED <<auxVars, now, active_connections, wsVars, reqVars,
                   histVars>>

\* websocket_endpoint, lines 280-285, handle_ack and acknowledge_event: an
\* ACK frame with any event_id; the ACK carries the connection's user_id.
ReceiveAck(ws, event_id) ==
    /\ wsState[ws] = "live"
    /\ LET found == AckMatches(event_id, wsUser[ws])
           success == found # {}
       IN  /\ IF success
              THEN \E d \in found : store' = store \ {d}
              ELSE UNCHANGED store
           /\ lastAck' = IF "ack" \in observe
                         THEN [ws |-> ws, event_id |-> event_id,
                               success |-> success]
                         ELSE lastAck
           /\ acked' = IF success /\ observe \cap {"ack", "acked"} # {}
                       THEN acked \cup {<<event_id, wsUser[ws]>>} ELSE acked
           /\ ackMark' = IF success /\ "mark" \in observe
                         THEN Len(inserted) ELSE ackMark
           /\ outcomes' = Recorded("acknowledge_event", success, FALSE)
    /\ UNCHANGED <<lock, deleted_count, read_failed, lastFrame, chatVars, now,
                   active_connections, wsVars, reqVars, inserted, queued>>

\* acknowledge_event, lines 127-129, and handle_ack, lines 140-141: the
\* store cannot be reached, delete_one raises, acknowledge_event logs and
\* returns False, and handle_ack logs the ACK as failed.
ReceiveAckFails(ws, event_id) ==
    /\ wsState[ws] = "live"
    /\ lastAck' = IF "ack" \in observe
                  THEN [ws |-> ws, event_id |-> event_id, success |-> FALSE]
                  ELSE lastAck
    /\ outcomes' = Recorded("acknowledge_event", FALSE, TRUE)
    /\ UNCHANGED <<lock, deleted_count, read_failed, lastFrame, chatVars, store, now,
                   active_connections, wsVars, reqVars, inserted, queued,
                   ackMark, acked>>

\* The client frames the endpoint cannot process: text that is not JSON,
\* JSON that is not an object, an ACK without event_id, an ACK whose
\* event_id is not a UUID, an object with another type or with none.
BadFrames ==
    {[kind |-> k] : k \in {"invalid_json", "not_object", "ack_no_event_id",
                           "ack_bad_event_id", "unknown_type", "no_type"}}

PingFrame == [kind |-> "ping"]

PongFrame == [event |-> NoEvent, kind |-> "pong"]

\* websocket_endpoint, lines 277-289: what the body of the inner try raises
\* for a frame: json.loads raises JSONDecodeError, message.get on a value
\* that is not a dict AttributeError, message["event_id"] KeyError, UUID(...)
\* ValueError; a frame of another type falls through both branches.
Raises(frame) ==
    CASE frame.kind = "invalid_json" -> "JSONDecodeError"
      [] frame.kind = "not_object" -> "AttributeError"
      [] frame.kind = "ack_no_event_id" -> "KeyError"
      [] frame.kind = "ack_bad_event_id" -> "ValueError"
      [] OTHER -> "none"

\* A faulty inner try, with the `except json.JSONDecodeError` clause alone.
LoggedAsJsonOnly(exception) ==
    CASE exception = "JSONDecodeError" -> "warning"
      [] exception = "none" -> "none"
      [] OTHER -> "uncaught"

\* websocket_endpoint, lines 291-294: the except clause of the inner try
\* that takes the exception, and its log call; every exception above is an
\* Exception.
LoggedAs(exception) ==
    CASE exception = "JSONDecodeError" -> "warning"
      [] exception = "none" -> "none"
      [] OTHER -> "error"

\* websocket_endpoint, lines 274-294, and 298-300 for what the inner try
\* does not catch: a frame that cannot be processed is logged and the loop
\* goes on to the next receive_text.
ReceiveBadFrame(ws, frame) ==
    /\ wsState[ws] = "live"
    /\ lastFrame' = [ws |-> ws, frame |-> frame,
                     logged |-> LoggedAs(Raises(frame))]
    /\ IF LoggedAs(Raises(frame)) = "uncaught"
       THEN /\ lock = "free"
            /\ active_connections' = Unregistered(ws, wsUser[ws])
            /\ wsState' = [wsState EXCEPT ![ws] = "closed"]
       ELSE UNCHANGED <<active_connections, wsState>>
    /\ UNCHANGED <<lock, deleted_count, read_failed, outcomes, chatVars,
                   store, now,
                   wsUser, wsAlive, pending_events, sent, written, backfilled,
                   reqVars, histVars>>

\* The pong frames written to ws.
Pongs(ws) == {i \in 1 .. Len(written[ws]) : written[ws][i] = PongFrame}

\* A faulty endpoint, which reads the ping and does not answer.
ReceivePingSilent(ws) ==
    /\ wsState[ws] = "live"
    /\ Cardinality(Pongs(ws)) < MaxPings
    /\ lastFrame' = [ws |-> ws, frame |-> PingFrame, logged |-> "none"]
    /\ UNCHANGED <<lock, deleted_count, read_failed, outcomes, chatVars,
                   store, now,
                   active_connections, wsVars, reqVars, histVars>>

\* websocket_endpoint, lines 287-289 and 293-294: a ping frame is answered
\* with a pong on the same WebSocket; when that write raises, the inner try
\* logs the error and the loop goes on.
ReceivePing(ws) ==
    /\ wsState[ws] = "live"
    /\ Cardinality(Pongs(ws)) < MaxPings
    /\ IF wsAlive[ws]
       THEN /\ written' = [written EXCEPT ![ws] = Append(@, PongFrame)]
            /\ UNCHANGED lastFrame
       ELSE /\ lastFrame' = [ws |-> ws, frame |-> PingFrame,
                             logged |-> "error"]
            /\ UNCHANGED written
    /\ UNCHANGED <<lock, deleted_count, read_failed, outcomes, chatVars,
                   store, now,
                   active_connections, wsState, wsUser, wsAlive,
                   pending_events, sent, backfilled, reqVars, histVars>>

\* The client goes away: from now on writes to the socket raise and
\* receive_text raises WebSocketDisconnect.
ClientDrop(ws) ==
    /\ wsState[ws] \in {"registered", "fetch", "backfill", "live"}
    /\ wsAlive[ws]
    /\ wsAlive' = [wsAlive EXCEPT ![ws] = FALSE]
    /\ UNCHANGED <<auxVars, store, now, active_connections, wsState, wsUser,
                   pending_events, sent, written, backfilled, reqVars,
                   histVars>>

\* websocket_endpoint, lines 296-297, and disconnect.
ReceiveDisconnect(ws) ==
    /\ wsState[ws] = "live"
    /\ ~wsAlive[ws]
    /\ lock = "free"
    /\ active_connections' = Unregistered(ws, wsUser[ws])
    /\ wsState' = [wsState EXCEPT ![ws] = "closed"]
    /\ UNCHANGED <<auxVars, store, now, wsUser, wsAlive, pending_events, sent,
                   written, backfilled, reqVars, histVars>>

\* ------------------------------------------------------------ maintenance
\* A faulty sweep, deleting one expired document (delete_one) at most.
CleanupOneExpired ==
    /\ \/ Expired(now) = {} /\ UNCHANGED store
       \/ \E d \in Expired(now) : store' = store \ {d}
    /\ deleted_count' = IF "sweep" \in observe
                        THEN Min(1, Cardinality(Expired(now)))
                        ELSE deleted_count
    /\ UNCHANGED <<now, active_connections, wsVars, reqVars, histVars, lock,
                   read_failed, outcomes, lastFrame, chatVars>>

\* cleanup_expired_events (POST /api/admin/cleanup-expired-events).
CleanupExpired ==
    /\ store' = store \ Expired(now)
    /\ deleted_count' = IF "sweep" \in observe
                        THEN Cardinality(Expired(now)) ELSE deleted_count
    /\ outcomes' = Recorded("cleanup_expired_events",
                            Cardinality(Expired(now)), FALSE)
    /\ UNCHANGED <<now, active_connections, wsVars, reqVars, histVars, lock,
                   read_failed, lastFrame, chatVars>>

\* cleanup_expired_events, lines 153-155: the store cannot be reached,
\* delete_many raises, and the sweep logs and returns 0.
CleanupExpiredFails ==
    /\ deleted_count' = IF "sweep" \in observe THEN 0 ELSE deleted_count
    /\ outcomes' = Recorded("cleanup_expired_events", 0, TRUE)
    /\ UNCHANGED <<store, now, active_connections, wsVars, reqVars, histVars,
                   lock, read_failed, lastFrame, chatVars>>

\* get_event_by_id, lines 169-181: the point lookup, which no handler of the
\* program calls; its caller gets the Event or None.
GetEventById(event_id, recipient_id) ==
    /\ \E result \in get_event_by_id(event_id, recipient_id) :
          outcomes' = Recorded("get_event_by_id", result, FALSE)
    /\ UNCHANGED <<store, now, active_connections, wsVars, reqVars, histVars,
                   lock, deleted_count, read_failed, lastFrame, chatVars>>

\* get_event_by_id, lines 183-185: the store cannot be reached, find_one
\* raises, and the lookup logs and returns None.
GetEventByIdFails(event_id, recipient_id) ==
    /\ outcomes' = Recorded("get_event_by_id", None, TRUE)
    /\ UNCHANGED <<store, now, active_connections, wsVars, reqVars, histVars,
                   lock, deleted_count, read_failed, lastFrame, chatVars>>

\* Time passes.
Tick ==
    /\ now + TickDays <= MaxNow
    /\ now' = now + TickDays
    /\ UNCHANGED <<auxVars, store, active_connections, wsVars, reqVars, histVars>>

\* ------------------------------------------------------------------ Next
\* The handlers P of POST /api/events, called by the users C, the WebSockets
\* W and the users U that connect and are written to.
Handlers(P, C, W, U) ==
    \/ \E p \in P, ev \in Requests, u \in C :
          ev.recipient_id \in U /\ SendEventRequest(p, ev, u)
    \/ \E p \in P : EnqueueFind(p)
    \/ \E p \in P : EnqueueInsert(p)
    \/ \E p \in P : PushSnapshot(p)
    \/ \E p \in P, ws \in W : PushWrite(p, ws)
    \/ \E p \in P : PushCleanup(p)
    \/ \E ws \in W, u \in U : Connect(ws, u)
    \/ \E ws \in W : ConnectLog(ws)
    \/ \E ws \in W : BackfillRead(ws)
    \/ \E ws \in W : BackfillWrite(ws)
    \/ \E ws \in W, id \in AckIds : ReceiveAck(ws, id)
    \/ \E ws \in W : ClientDrop(ws)
    \/ \E ws \in W : ReceiveDisconnect(ws)

Maintenance ==
    \/ CleanupExpired
    \/ Tick

\* Two concurrent submitters and one device of one user.
Next == Handlers(Procs, Senders, {"s1"}, {"u1"})

Spec == Init /\ [][Next]_vars

\* The same, recording the insertions and the last successful ACK.
SpecBackfill ==
    InitWith({}, MaxSubmits, {"inserted", "mark"}) /\ [][Next]_vars

\* One submitter and two devices of one user.
NextFanout == Handlers({"p1"}, Senders, Sessions, {"u1"})

SpecFanout == InitWith({}, FanoutSubmits, {"inserted"}) /\ [][NextFanout]_vars

\* One submitter and one device, recording the ACKs.
NextAck == Handlers({"p1"}, Senders, {"s1"}, {"u1"})

SpecAck == InitWith({}, MaxSubmits, {"ack"}) /\ [][NextAck]_vars

\* One submitter, one device, the clock and the sweep.
NextSeq == NextAck \/ Maintenance

SpecSeq == InitWith({}, MaxSubmits, {"inserted"}) /\ [][NextSeq]_vars

\* The same from a backlog of DefaultLimit pending events; the scheduler
\* runs a backfill loop, once it has started, to its end.
InBackfill == \E ws \in Sessions : wsState[ws] = "backfill"

NextBacklog ==
    \/ \E ev \in Requests, u \in Senders :
          ~InBackfill /\ ev.recipient_id = "u1"
                      /\ SendEventRequest("p1", ev, u)
    \/ ~InBackfill /\ EnqueueFind("p1")
    \/ ~InBackfill /\ EnqueueInsert("p1")
    \/ ~InBackfill /\ PushSnapshot("p1")
    \/ ~InBackfill /\ PushWrite("p1", "s1")
    \/ ~InBackfill /\ PushCleanup("p1")
    \/ ~InBackfill /\ Connect("s1", "u1")
    \/ ~InBackfill /\ ConnectLog("s1")
    \/ ~InBackfill /\ BackfillRead("s1")
    \/ BackfillWrite("s1")
    \/ \E id \in AckIds : ~InBackfill /\ ReceiveAck("s1", id)
    \/ ~InBackfill /\ ClientDrop("s1")
    \/ ~InBackfill /\ ReceiveDisconnect("s1")
    \/ ~InBackfill /\ CleanupExpired
    \/ ~InBackfill /\ Tick

SpecBacklog ==
    InitWith(Preloaded("u1", DefaultLimit), BacklogSubmits,
             {"queued", "backfilled"})
        /\ [][NextBacklog]_vars

\* One submitter and one device, with a store that can be unreachable.
StoreFailures ==
    \/ EnqueueFindFails("p1")
    \/ EnqueueInsertFails("p1")
    \/ BackfillReadFails("s1")

NextOutage == NextAck \/ StoreFailures

SpecOutage == InitWith({}, MaxSubmits, {"inserted"}) /\ [][NextOutage]_vars

\* One submitter, one device, the clock and the sweep, recording the count
\* of each sweep.
SpecSweep == InitWith({}, MaxSubmits, {"sweep"}) /\ [][NextSeq]_vars

\* One submitter to u1 and two devices, each of u1 or of u2.
NextRegistry == NextFanout \/ \E ws \in Sessions : Connect(ws, "u2")

SpecRegistry == InitWith({}, FanoutSubmits, {}) /\ [][NextRegistry]_vars

\* One submitter, one device, the sweep and the point lookup of one event,
\* with a store that can be unreachable for the operations that read or
\* delete, recording what each store operation returned.
ReadFailures ==
    \/ BackfillReadFails("s1")
    \/ ReceiveAckFails("s1", 1)
    \/ CleanupExpiredFails
    \/ GetEventByIdFails(1, "u1")

NextFailClosed ==
    \/ NextAck
    \/ CleanupExpired
    \/ GetEventById(1, "u1")
    \/ ReadFailures

SpecFailClosed ==
    InitWith({}, FanoutSubmits, {"outcome"}) /\ [][NextFailClosed]_vars

\* One submitter and one device, for two recipients, recording the
\* insertions and the ACKs.
NextRecipients == Handlers({"p1"}, Senders, {"s1"}, Users)

SpecRecipients ==
    InitWith({}, MaxSubmits, {"ack", "inserted"}) /\ [][NextRecipients]_vars

\* One submitter and one device, the requests made by either user in the
\* name of the sender.
NextAuth == Handlers({"p1"}, Users, {"s1"}, {"u1"})

SpecAuth == InitWith({}, MaxSubmits, {}) /\ [][NextAuth]_vars

\* One submitter and two devices of one user, recording the insertions and
\* the events acknowledged.
SpecDevices ==
    InitWith({}, FanoutSubmits, {"acked", "inserted"}) /\ [][NextFanout]_vars

\* Two devices of one user with a backlog and no submission under way,
\* whose clients send ACKs, frames that cannot be processed and pings.
NextFrames ==
    \/ \E ws \in Sessions : Connect(ws, "u1")
    \/ \E ws \in Sessions : ConnectLog(ws)
    \/ \E ws \in Sessions : BackfillRead(ws)
    \/ \E ws \in Sessions : BackfillWrite(ws)
    \/ \E ws \in Sessions, id \in AckIds : ReceiveAck(ws, id)
    \/ \E ws \in Sessions, frame \in BadFrames : ReceiveBadFrame(ws, frame)
    \/ \E ws \in Sessions : ReceivePing(ws)
    \/ \E ws \in Sessions : ClientDrop(ws)
    \/ \E ws \in Sessions : ReceiveDisconnect(ws)

SpecFrames ==
    InitWith(Preloaded("u1", FramesBacklog), 0, {}) /\ [][NextFrames]_vars

\* ------------------------------------------- legacy chat route: the steps
\* The list without websocket: list.remove.
Removed(list, websocket) ==
    SelectSeq(list, LAMBDA c : c # websocket)

\* ConnectionManager.connect, lines 11-13.
ChatRegistered(websocket, user_id) ==
    IF user_id \in DOMAIN manager
    THEN [manager EXCEPT ![user_id] = Append(@, websocket)]
    ELSE [u \in DOMAIN manager \cup {user_id} |->
             IF u = user_id THEN <<websocket>> ELSE manager[u]]

\* ConnectionManager.disconnect, lines 16-19.
ChatUnregistered(websocket, user_id) ==
    IF user_id \notin DOMAIN manager THEN manager
    ELSE IF Removed(manager[user_id], websocket) = <<>>
         THEN [u \in DOMAIN manager \ {user_id} |-> manager[u]]
         ELSE [manager EXCEPT ![user_id] = Removed(@, websocket)]

\* The loops of send_personal_message and broadcast_to_group, lines 22-23
\* and 27-29, from the head of member_ids up to the first connection found:
\* the user whose list is iterated, the number of its items taken, the
\* connection the next send_json goes to, and the members still to come.
RECURSIVE StartAt(_, _)
StartAt(member_ids, registry) ==
    IF member_ids = <<>> THEN NoIter
    ELSE IF /\ Head(member_ids) \in DOMAIN registry
            /\ Len(registry[Head(member_ids)]) > 0
         THEN [user    |-> Head(member_ids),
               idx     |-> 1,
               target  |-> registry[Head(member_ids)][1],
               members |-> Tail(member_ids),
               stale   |-> FALSE]
         ELSE StartAt(Tail(member_ids), registry)

\* The next turn of the loops after a send_json returned: the list iterator
\* reads the item at its index in the list as it is now; a list that was
\* emptied and dropped from the registry has no further item.
Advance(it, registry) ==
    IF /\ ~it.stale
       /\ it.user \in DOMAIN registry
       /\ it.idx < Len(registry[it.user])
    THEN [it EXCEPT !.idx = @ + 1,
                    !.target = registry[it.user][it.idx + 1]]
    ELSE StartAt(it.members, registry)

\* The dict the route sends, lines 41-47 and 55-60.
ChatMessage(doc) == [sender_id |-> doc.sender_id, group_id |-> doc.group_id]

\* websocket_endpoint, lines 64-68: the except clauses call
\* manager.disconnect for the endpoint's own WebSocket and the endpoint
\* returns, which closes the connection. The loops of other endpoints that
\* iterate a list this empties find nothing more in it.
ChatEndpointLeaves(ws) ==
    /\ manager' = ChatUnregistered(ws, ChatUserOf(ws))
    /\ chatPc' = [chatPc EXCEPT ![ws] = "closed"]
    /\ chatAlive' = [chatAlive EXCEPT ![ws] = FALSE]
    /\ message_doc' = [message_doc EXCEPT ![ws] = NoMessage]
    /\ chatIter' =
          [w \in ChatSockets |->
              IF w = ws THEN NoIter
              ELSE IF /\ chatIter[w] # NoIter
                      /\ chatIter[w].user = ChatUserOf(ws)
                      /\ ChatUserOf(ws) \notin
                            DOMAIN ChatUnregistered(ws, ChatUserOf(ws))
                   THEN [chatIter[w] EXCEPT !.stale = TRUE]
                   ELSE chatIter[w]]

\* websocket_endpoint, line 13, and ConnectionManager.connect, lines 10-13.
ChatConnect(ws) ==
    /\ chatPc[ws] = "idle"
    /\ manager' = ChatRegistered(ws, ChatUserOf(ws))
    /\ chatPc' = [chatPc EXCEPT ![ws] = "receive"]
    /\ UNCHANGED <<coreVars, chatAlive, message_doc, chatIter, chatReceived,
                   messages, chatBudget>>

\* websocket_endpoint, lines 16-34 and 51: a frame is read and message_doc
\* is built.
ChatReceive(ws, frame) ==
    /\ chatPc[ws] = "receive"
    /\ chatAlive[ws]
    /\ chatBudget > 0
    /\ chatBudget' = chatBudget - 1
    /\ message_doc' = [message_doc EXCEPT
                         ![ws] = [sender_id   |-> ChatUserOf(ws),
                                  receiver_id |-> frame.receiver_id,
                                  group_id    |-> frame.group_id]]
    /\ chatPc' = [chatPc EXCEPT ![ws] = "insert"]
    /\ UNCHANGED <<coreVars, manager, chatAlive, chatIter, chatReceived,
                   messages>>

\* websocket_endpoint, lines 16-22 and 66-68: a frame that json.loads
\* rejects, or that has no "content", raises; the endpoint disconnects.
ChatReceiveBad(ws) ==
    /\ chatPc[ws] = "receive"
    /\ chatAlive[ws]
    /\ chatBudget > 0
    /\ chatBudget' = chatBudget - 1
    /\ ChatEndpointLeaves(ws)
    /\ UNCHANGED <<coreVars, chatReceived, messages>>

\* websocket_endpoint, lines 35 and 52-54: insert_one; a personal message
\* then enters send_personal_message, lines 22-24.
ChatInsert(ws) ==
    /\ chatPc[ws] = "insert"
    /\ messages' = Append(messages, message_doc[ws])
    /\ IF message_doc[ws].group_id # "none"
       THEN /\ chatPc' = [chatPc EXCEPT ![ws] = "find"]
            /\ UNCHANGED <<message_doc, chatIter>>
       ELSE LET it == StartAt(<<message_doc[ws].receiver_id>>, manager)
            IN  /\ chatIter' = [chatIter EXCEPT ![ws] = it]
                /\ chatPc' = [chatPc EXCEPT
                                ![ws] = IF it = NoIter THEN "receive"
                                        ELSE "send"]
                /\ message_doc' = [message_doc EXCEPT
                                     ![ws] = IF it = NoIter THEN NoMessage
                                             ELSE @]
    /\ UNCHANGED <<coreVars, manager, chatAlive, chatReceived, chatBudget>>

\* websocket_endpoint, lines 38-49: the group is looked up; when it exists
\* the endpoint enters broadcast_to_group, lines 27-30.
ChatFindGroup(ws) ==
    /\ chatPc[ws] = "find"
    /\ LET it == StartAt(find_group(message_doc[ws].group_id), manager)
       IN  /\ chatIter' = [chatIter EXCEPT ![ws] = it]
           /\ chatPc' = [chatPc EXCEPT
                           ![ws] = IF it = NoIter THEN "receive" ELSE "send"]
           /\ message_doc' = [message_doc EXCEPT
                                ![ws] = IF it = NoIter THEN NoMessage ELSE @]
    /\ UNCHANGED <<coreVars, manager, chatAlive, chatReceived, messages,
                   chatBudget>>

\* send_personal_message, line 24, and broadcast_to_group, line 30: one
\* send_json. When it returns the loops go on to the next connection; when
\* it raises the exception leaves the loops and the receive loop of the
\* sending endpoint, whose except clause disconnects the endpoint's own
\* WebSocket (websocket_endpoint, lines 64-68).
ChatSend(ws) ==
    /\ chatPc[ws] = "send"
    /\ LET target == chatIter[ws].target
       IN  IF chatAlive[target]
           THEN LET it == Advance(chatIter[ws], manager)
                IN  /\ chatReceived' =
                          [chatReceived EXCEPT
                             ![target] = Append(@, ChatMessage(message_doc[ws]))]
                    /\ chatIter' = [chatIter EXCEPT ![ws] = it]
                    /\ chatPc' = [chatPc EXCEPT
                                    ![ws] = IF it = NoIter THEN "receive"
                                            ELSE "send"]
                    /\ message_doc' = [message_doc EXCEPT
                                         ![ws] = IF it = NoIter THEN NoMessage
                                                 ELSE @]
                    /\ UNCHANGED <<manager, chatAlive>>
           ELSE /\ ChatEndpointLeaves(ws)
                /\ UNCHANGED chatReceived
    /\ UNCHANGED <<coreVars, messages, chatBudget>>

\* The chat client goes away: writes to its WebSocket raise from now on.
ChatClientDrop(ws) ==
    /\ chatPc[ws] \notin {"idle", "closed"}
    /\ chatAlive[ws]
    /\ chatAlive' = [chatAlive EXCEPT ![ws] = FALSE]
    /\ UNCHANGED <<coreVars, manager, chatPc, message_doc, chatIter,
                   chatReceived, messages, chatBudget>>

\* websocket_endpoint, lines 16 and 64-65: receive_text raises
\* WebSocketDisconnect.
ChatReceiveDisconnect(ws) ==
    /\ chatPc[ws] = "receive"
    /\ ~chatAlive[ws]
    /\ ChatEndpointLeaves(ws)
    /\ UNCHANGED <<coreVars, chatReceived, messages, chatBudget>>

\* The chat endpoints of all the connections, running concurrently.
NextChat ==
    \E ws \in ChatSockets :
        \/ ChatConnect(ws)
        \/ \E frame \in ChatFrames : ChatReceive(ws, frame)
        \/ ChatReceiveBad(ws)
        \/ ChatInsert(ws)
        \/ ChatFindGroup(ws)
        \/ ChatSend(ws)
        \/ ChatClientDrop(ws)
        \/ ChatReceiveDisconnect(ws)

SpecChat == InitWith({}, 0, {}) /\ [][NextChat]_vars

\* ================================================================ properties
\* The Events of the frames written to ws, in write order.
WrittenEvents(ws) == [i \in 1 .. Len(written[ws]) |-> written[ws][i].event]

\* The backfill of ws is in flight: registered, its loop not yet over.
BackfillInFlight(ws) == wsState[ws] \in {"registered", "fetch", "backfill"}

\* ws has a push frame among the frames written to it.
HasPush(ws) == \E i \in 1 .. Len(written[ws]) : written[ws][i].kind = "push"

\* C1: under any interleaving of concurrent enqueue_event calls for one
\* recipient, no two stored events of that recipient share a sequence value.
C1_SequencesPairwiseDistinct ==
    \A d1, d2 \in store :
        (d1.recipient_id = d2.recipient_id /\ d1.sequence = d2.sequence)
            => d1 = d2

\* C2: over a sequential history of enqueue_event, acknowledge_event and
\* cleanup_expired_events, the first event of a recipient gets sequence 1 and
\* every later one a sequence strictly greater than every sequence assigned
\* to that recipient before, the deleted events included.
C2_SequenceNeverReused ==
    \A j \in 1 .. Len(inserted) :
        LET earlier == {i \in 1 .. (j - 1) :
                           inserted[i].recipient_id = inserted[j].recipient_id}
        IN  /\ earlier = {} => inserted[j].sequence = 1
            /\ \A i \in earlier : inserted[i].sequence < inserted[j].sequence

\* d is in every list get_pending_events can return for its recipient.
Returned(d, limit) ==
    \A evs \in get_pending_events(d.recipient_id, limit) :
        \E i \in 1 .. Len(evs) : evs[i] = DocToEvent(d)

\* The pending documents of d's recipient that can sort no later than d.
NotAfter(d) == {x \in PendingDocs(d.recipient_id) : x.sequence <= d.sequence}

\* C3 (as stated): an event reported as queued is returned by
\* get_pending_events for its recipient in every later state in which no
\* acknowledgement or sweep has removed it.
C3_QueuedAlwaysReturned ==
    \A d \in queued : d \in store => Returned(d, DefaultLimit)

\* The store keeps a queued document, with its content, over every step but
\* its recipient's ACK of its event_id and a sweep after its ttl_expiry.
C3_KeptUntilAckOrSweep ==
    \A d \in queued :
        (d \in store /\ d \notin store') =>
            \/ \E ws \in Sessions :
                  /\ wsUser[ws] = d.recipient_id
                  /\ ReceiveAck(ws, StrToUuid(d.event_id))
            \/ CleanupExpired /\ d.ttl_expiry < now

\* A queued document in the store is returned when at most `limit` pending
\* documents of its recipient have a sequence up to its own.
C3_ReturnedWithinLimit ==
    \A d \in queued :
        (d \in store /\ Cardinality(NotAfter(d)) <= DefaultLimit)
            => Returned(d, DefaultLimit)

\* C3 (amended): an event reported as queued stays in the store, unchanged,
\* until its recipient acknowledges it or a sweep runs after its ttl_expiry,
\* and until then get_pending_events returns it whenever no more than
\* `limit` pending events of the recipient have a sequence up to its own.
C3_QueuedEventRetained ==
    []C3_ReturnedWithinLimit /\ [][C3_KeptUntilAckOrSweep]_vars

\* A queued event that was pending at a connect, outlived the session and
\* is returned.
C3_Witness ==
    \E d \in queued \cap store :
        /\ d \in backfilled["s1"]
        /\ wsState["s1"] = "closed"
        /\ Returned(d, DefaultLimit)

\* The backfill of ws ran to the end of its list with no failed write.
BackfillComplete(ws) ==
    /\ wsState[ws] = "live"
    /\ sent[ws] = Len(pending_events[ws])

\* C4: an event reported as queued and still pending when its recipient
\* connects is written to the new session during the connect backfill when
\* no write fails, whatever the size of the backlog.
C4_QueuedEventBackfilled ==
    \A ws \in Sessions :
        BackfillComplete(ws) =>
            \A d \in backfilled[ws] :
                \E i \in 1 .. Len(written[ws]) :
                    written[ws][i] = Frame(DocToEvent(d), "backfill")

\* The step of ws is the read of _send_pending_events.
IsBackfillRead(ws) == wsState[ws] = "fetch" /\ wsState'[ws] # "fetch"

IsBackfillFrame(f) == f.kind = "backfill"

\* The Events the backfill has written to ws, in write order.
BackfillItems(ws) ==
    LET frames == SelectSeq(written[ws], IsBackfillFrame)
    IN  [i \in 1 .. Len(frames) |-> frames[i].event]

\* The documents inserted for user_id after the last successful ACK.
SinceLastAck(user_id) ==
    {inserted[i] : i \in {k \in (ackMark + 1) .. Len(inserted) :
                            inserted[k].recipient_id = user_id}}

\* The list read is strictly ascending in sequence and its items are the
\* events submitted to the user since the last acknowledgement.
ReadsSinceLastAck ==
    \A ws \in Sessions :
        IsBackfillRead(ws) =>
            LET evs == pending_events'[ws]
            IN  /\ \A i, j \in 1 .. Len(evs) :
                      i < j => evs[i].sequence < evs[j].sequence
                /\ {evs[i] : i \in 1 .. Len(evs)}
                      = {DocToEvent(d) : d \in SinceLastAck(wsUser[ws])}

C5_WritesListInOrder ==
    \A ws \in Sessions :
        /\ BackfillItems(ws) = SubSeq(pending_events[ws], 1, sent[ws])
        /\ BackfillComplete(ws) => BackfillItems(ws) = pending_events[ws]
        /\ \A i, j \in 1 .. Len(pending_events[ws]) :
              i < j => pending_events[ws][i].sequence
                          <= pending_events[ws][j].sequence

\* The list read holds the pending documents of the user at the read, one
\* item each: all of them up to `limit`, the lowest in sequence beyond.
C5_ReadsPending ==
    \A ws \in Sessions :
        IsBackfillRead(ws) =>
            LET evs == pending_events'[ws]
                items == {evs[i] : i \in 1 .. Len(evs)}
                docs == PendingDocs(wsUser[ws])
            IN  /\ Len(evs) = Min(DefaultLimit, Cardinality(docs))
                /\ Cardinality(items) = Len(evs)
                /\ items \subseteq {DocToEvent(d) : d \in docs}
                /\ \A d \in docs : DocToEvent(d) \notin items =>
                      \A e \in items : e.sequence <= d.sequence

C6_NoPushDuringBackfill ==
    \A ws \in Sessions :
        BackfillInFlight(ws) =>
            /\ \A p \in Procs : ws \notin connections[p]
            /\ ~HasPush(ws)

\* C7: for every session, the sequence values of the envelopes written to it
\* (backfill items, then live pushes) are strictly increasing in write order.
C7_WrittenSequencesIncreasing ==
    \A ws \in Sessions :
        \A i, j \in 1 .. Len(written[ws]) :
            i < j => WrittenEvents(ws)[i].sequence < WrittenEvents(ws)[j].sequence

\* The step is a successful write of the push of p to ws.
IsPushWritten(p, ws) ==
    /\ pc[p] = "write"
    /\ ws \in todo[p]
    /\ ws \notin todo'[p]
    /\ written'[ws] # written[ws]

\* Every push written is of an event whose document is in the store.
PushesStoredEvent ==
    \A p \in Procs, ws \in Sessions :
        IsPushWritten(p, ws) => event_doc[p] \in store

\* C8: send_event never writes an event to a session after the event has
\* been deleted from the store (persisted, then pushed, then acknowledged or
\* expired).
C8_PushedWhileStored == [][PushesStoredEvent]_vars

\* The stored documents with this event_id and recipient_id.
StoredAs(event_id, recipient_id) ==
    {d \in store : /\ StrToUuid(d.event_id) = event_id
                   /\ d.recipient_id = recipient_id}

\* An ACK deletes the one matching document and reports true, or finds none,
\* reports false and leaves the store as it is: so a second ACK of a pair
\* reports false and changes nothing.  Either way the endpoint stays in its
\* receive loop and the registry is untouched.
AckDeletesOnce ==
    \A ws \in Sessions, id \in AckIds :
        ReceiveAck(ws, id) =>
            LET matching == StoredAs(id, wsUser[ws])
            IN  /\ lastAck'.success = (matching # {})
                /\ matching # {} =>
                      /\ Cardinality(matching) = 1
                      /\ store' = store \ matching
                /\ matching = {} => store' = store
                /\ <<id, wsUser[ws]>> \in acked /\ matching = {} =>
                      lastAck'.success = FALSE /\ store' = store
                /\ {d \in store' : StrToUuid(d.event_id) = id
                                   /\ d.recipient_id = wsUser[ws]} = {}
                /\ wsState'[ws] = "live"
                /\ active_connections' = active_connections

\* C9: acknowledge_event is idempotent: the first ACK of a pending event
\* deletes it and returns true, a further ACK of the same event_id and
\* recipient_id returns false without raising, leaves the store unchanged
\* and does not make the event pending again, and handle_ack does not turn
\* the not-found result into an error.
C9_AcknowledgeIdempotent == [][AckDeletesOnce]_vars

\* A second ACK of a pair was answered false, the event still gone and the
\* session still in its receive loop.
C9_Witness ==
    /\ lastAck.ws # "none"
    /\ lastAck.success = FALSE
    /\ <<lastAck.event_id, wsUser[lastAck.ws]>> \in acked
    /\ StoredAs(lastAck.event_id, wsUser[lastAck.ws]) = {}
    /\ wsState[lastAck.ws] = "live"

\* The step ends the push of p: the cleanup and the response.
IsPushCleanup(p) == pc[p] = "write" /\ todo[p] = {} /\ pc'[p] = "idle"

\* At the end of a push every socket whose write failed is out of the
\* registry, every other socket of the snapshot has the envelope and is not
\* taken out, and the push reports delivered when there is such a socket.
\* While it runs, each socket already tried either failed or has the
\* envelope, whatever happened to the others.
FanoutIsolatesFailures ==
    \A p \in Procs :
        LET user_id == event[p].recipient_id
            failed == disconnected[p]
            good == connections[p] \ disconnected[p]
        IN  /\ pc[p] = "write" =>
                  \A ws \in connections[p] \ todo[p] :
                      \/ ws \in failed
                      \/ \E i \in 1 .. Len(written[ws]) :
                            written[ws][i] = Frame(event[p], "push")
            /\ IsPushCleanup(p) =>
                  /\ \A u \in DOMAIN active_connections' :
                        active_connections'[u] \cap failed = {}
                  /\ \A ws \in good :
                        /\ \E i \in 1 .. Len(written'[ws]) :
                              written'[ws][i] = Frame(event[p], "push")
                        /\ ws \in Snapshot(user_id) =>
                              /\ user_id \in DOMAIN active_connections'
                              /\ ws \in active_connections'[user_id]
                  /\ response'[p].delivered = (good # {})

\* C10: when some of the writes of a push fail, every failing session is out
\* of the registry by the end of the push, every other session of the
\* snapshot receives the envelope and stays registered, and a failure on one
\* session never prevents the write to another.
C10_FanoutIsolatesFailures == [][FanoutIsolatesFailures]_vars

\* A push ended with one device dropped from the registry for a failed
\* write and the other served and still registered.
C10_Witness ==
    /\ response["p1"].status = 200
    /\ response["p1"].delivered
    /\ pc["p1"] = "idle"
    /\ wsState["s1"] = "live" /\ ~wsAlive["s1"]
    /\ "u1" \in DOMAIN active_connections
    /\ active_connections["u1"] = {"s2"}
    /\ HasPush("s2") /\ ~HasPush("s1")

\* The step is one turn of the push loop of p, for ws.
IsPushAttempt(p, ws) == pc[p] = "write" /\ ws \in todo[p] /\ ws \notin todo'[p]

\* The step is the snapshot of the push of p, found empty.
IsOfflinePush(p) ==
    /\ pc[p] = "push" /\ pc'[p] # "push"
    /\ Snapshot(event[p].recipient_id) = {}

\* Each turn of the loop either writes the envelope to the session or puts
\* the session among the failed ones; the push reports true exactly when a
\* session of the snapshot is not among the failed ones; with no registered
\* session it reports false at once, writes nothing and leaves the registry.
ReturnsTrueIffAccepted ==
    \A p \in Procs :
        /\ \A ws \in Sessions :
              IsPushAttempt(p, ws) =>
                  \/ /\ written'[ws] =
                           Append(written[ws], Frame(event[p], "push"))
                     /\ disconnected'[p] = disconnected[p]
                  \/ /\ written'[ws] = written[ws]
                     /\ disconnected'[p] = disconnected[p] \cup {ws}
        /\ IsPushCleanup(p) =>
              response'[p].delivered =
                  (\E ws \in connections[p] : ws \notin disconnected[p])
        /\ IsOfflinePush(p) =>
              /\ response'[p].status = 200
              /\ response'[p].delivered = FALSE
              /\ pc'[p] = "idle"
              /\ written' = written
              /\ active_connections' = active_connections

\* C11: ConnectionManager.send_event returns true if and only if at least
\* one session of the recipient accepted the write; with no registered
\* session it returns false without a write, without raising and without
\* changing the registry.
C11_DeliveredIffAccepted == [][ReturnsTrueIffAccepted]_vars

\* A push whose every write failed ended with delivered false and the
\* failed session out of the registry.
C11_Witness ==
    /\ pc["p1"] = "idle"
    /\ response["p1"].status = 200
    /\ ~response["p1"].delivered
    /\ \E ws \in Sessions :
          /\ wsState[ws] = "live" /\ ~wsAlive[ws]
          /\ ws \notin Snapshot("u1")
          /\ ~HasPush(ws)

\* The step ends the request of p with the failure of enqueue_event.
IsEnqueueFailure(p) ==
    /\ pc[p] \in {"find", "insert"}
    /\ response'[p].status = 500

\* A request whose enqueue_event fails ends with status 500 in that step,
\* having stored nothing of its event and written to no session; and a push
\* only ever writes an event whose document was inserted before.
FailedAppendLeavesNothing ==
    \A p \in Procs :
        /\ IsEnqueueFailure(p) =>
              /\ pc'[p] = "idle"
              /\ store' = store
              /\ event_doc[p] \notin store'
              /\ written' = written
              /\ active_connections' = active_connections
        /\ \A ws \in Sessions :
              IsPushWritten(p, ws) =>
                  \E i \in 1 .. Len(inserted) : inserted[i] = event_doc[p]

IsRequestEndAfterAppend(p) == pc[p] \in {"push", "write"} /\ pc'[p] = "idle"

\* Once the append succeeded the request can only end with the success
\* response, which carries the event_id, delivered and queued = ~delivered;
\* delivered is false, and queued true, when the snapshot was empty or every
\* write failed.
SuccessResponseAfterAppend ==
    \A p \in Procs :
        /\ pc[p] \in {"push", "write"} => pc'[p] \in {"push", "write", "idle"}
        /\ IsRequestEndAfterAppend(p) =>
              /\ response'[p].status = 200
              /\ response'[p].event_id = event[p].event_id
              /\ response'[p].delivered \in BOOLEAN
              /\ response'[p].queued = ~response'[p].delivered
              /\ (IsOfflinePush(p) \/ connections[p] = disconnected[p]) =>
                    /\ response'[p].delivered = FALSE
                    /\ response'[p].queued = TRUE

\* C13: a submission whose append succeeded always returns a success
\* response with event_id, delivered and queued = not delivered, whatever
\* the push outcome; to a recipient with no live session it returns
\* delivered = false, queued = true.
C13_ResponseShape == [][SuccessResponseAfterAppend]_vars

\* A submission to a user who never connected was answered queued.
C13_Witness ==
    /\ pc["p1"] = "idle"
    /\ response["p1"].status = 200
    /\ ~response["p1"].delivered /\ response["p1"].queued
    /\ \A ws \in Sessions : wsState[ws] = "idle"
    /\ \E d \in store : StrToUuid(d.event_id) = response["p1"].event_id

\* A sweep deletes the stored documents whose ttl_expiry is before now, all
\* of them and no other, keeps the rest as they are and returns the number
\* of the deleted ones.
SweepDeletesExpired ==
    CleanupExpired =>
        /\ store' = {d \in store : d.ttl_expiry >= now}
        /\ deleted_count' = Cardinality({d \in store : d.ttl_expiry < now})

\* C14: cleanup_expired_events at time now deletes exactly the stored events
\* whose ttl_expiry is strictly earlier than now, pushed or acknowledged or
\* not, returns their count, and leaves every event whose ttl_expiry is at
\* or after now in the store unchanged.
C14_SweepStrictlyExpired == [][SweepDeletesExpired]_vars

\* A sweep deleted one event and kept another, inserted on an earlier day
\* and not yet expired.
C14_Witness ==
    /\ deleted_count = 1
    /\ pc["p1"] = "idle"
    /\ \E d \in store :
          d.ttl_expiry >= now /\ d.ttl_expiry < now + EventTtlDays

\* The step is the disconnect of ws by its endpoint.
IsDisconnect(ws) == wsState[ws] = "live" /\ wsState'[ws] = "closed"

\* A disconnect takes that session out of its user's set and nothing else:
\* the other sessions of the user stay, the entries of the other users stay
\* as they are, and the user's entry goes when its set becomes empty.
DisconnectRemovesOnlySession ==
    \A ws \in Sessions :
        IsDisconnect(ws) =>
            LET user_id == wsUser[ws]
                rest == Snapshot(user_id) \ {ws}
            IN  /\ \A u \in Users \ {user_id} :
                      /\ (u \in DOMAIN active_connections')
                            = (u \in DOMAIN active_connections)
                      /\ u \in DOMAIN active_connections =>
                            active_connections'[u] = active_connections[u]
                /\ DOMAIN active_connections' \subseteq Users
                /\ user_id \notin DOMAIN active_connections =>
                      active_connections' = active_connections
                /\ user_id \in DOMAIN active_connections =>
                      IF rest = {}
                      THEN user_id \notin DOMAIN active_connections'
                      ELSE /\ user_id \in DOMAIN active_connections'
                           /\ active_connections'[user_id] = rest

\* C15: disconnect(session, U) removes exactly that session from U's set,
\* leaves every other session of U and every session of other users
\* registered, and removes U's entry when the set becomes empty.
C15_DisconnectFrame == [][DisconnectRemovesOnlySession]_vars

\* The one session of u1 has disconnected: u1 has no entry, the session of
\* u2 is still registered.
C15_Witness ==
    /\ wsState["s1"] = "closed" /\ wsUser["s1"] = "u1"
    /\ DOMAIN active_connections = {"u2"}
    /\ active_connections["u2"] = {"s2"}
    /\ wsState["s2"] = "live"

\* disconnect is defined for every session and user, whatever the registry
\* holds: its result has no new key and no ws under user_id, and is the
\* registry itself when ws is not registered and no empty set sits under
\* user_id.
DisconnectTotal ==
    \A ws \in Sessions, user_id \in Users :
        LET after == Unregistered(ws, user_id)
        IN  /\ DOMAIN after \subseteq DOMAIN active_connections
            /\ user_id \in DOMAIN after => ws \notin after[user_id]
            /\ (/\ ws \notin Snapshot(user_id)
                /\ user_id \in DOMAIN active_connections =>
                      active_connections[user_id] # {})
                  => after = active_connections

\* The disconnect of an endpoint ends it with the session under no key,
\* registered before or not; and a push whose failed sessions have all left
\* the registry meanwhile ends normally and leaves the registry as it is.
DisconnectThenCleanup ==
    /\ \A ws \in Sessions :
          IsDisconnect(ws) =>
              \A u \in DOMAIN active_connections' :
                  ws \notin active_connections'[u]
    /\ \A p \in Procs :
          (/\ IsPushCleanup(p)
           /\ disconnected[p] \cap Snapshot(event[p].recipient_id) = {}) =>
              /\ active_connections' = active_connections
              /\ response'[p].status = 200

\* C16: disconnect is safe and idempotent at any point of any interleaving:
\* for a session that is not registered, or one held in the snapshot of a
\* push in flight, it raises nothing and leaves the session out of the
\* registry, and the cleanup of that session by the push is then a no-op.
C16_DisconnectSafe == []DisconnectTotal /\ [][DisconnectThenCleanup]_vars

\* A session disconnected while a push held it in its snapshot; the write
\* to it has failed and the cleanup is still to come.
C16_Witness ==
    /\ pc["p1"] = "write"
    /\ wsState["s1"] = "closed"
    /\ "s1" \in connections["p1"]
    /\ "s1" \in disconnected["p1"]
    /\ "s1" \notin Snapshot("u1")

\* The step is the snapshot of the push of p.
IsPushSnapshot(p) == pc[p] = "push" /\ pc'[p] # "push"

\* No step of a push changes the store, the clock or an endpoint; the
\* snapshot and the writes leave the registry too, and the cleanup takes
\* the failed sessions out of the recipient's set and changes nothing else.
PushOnlyCleansRegistry ==
    \A p \in Procs :
        LET user_id == event[p].recipient_id
            pushing == \/ IsPushSnapshot(p)
                       \/ IsPushCleanup(p)
                       \/ \E ws \in Sessions : IsPushAttempt(p, ws)
        IN  /\ pushing =>
                  /\ store' = store
                  /\ now' = now
                  /\ wsState' = wsState
            /\ (pushing /\ ~IsPushCleanup(p)) =>
                  active_connections' = active_connections
            /\ IsPushCleanup(p) =>
                  /\ DOMAIN active_connections' = DOMAIN active_connections
                  /\ \A u \in DOMAIN active_connections :
                        active_connections'[u] =
                            IF u = user_id
                            THEN active_connections[u] \ disconnected[p]
                            ELSE active_connections[u]

\* C17: ConnectionManager.send_event leaves the event store unchanged in
\* every outcome; the only state it changes is the registry, and only by
\* removing the sessions whose write failed.
C17_PushFrame == [][PushOnlyCleansRegistry]_vars

\* A push served both devices and ended with the event still stored.
C17_Witness ==
    /\ pc["p1"] = "idle"
    /\ response["p1"].status = 200
    /\ HasPush("s1") /\ HasPush("s2")
    /\ active_connections["u1"] = {"s1", "s2"}
    /\ \E d \in store : StrToUuid(d.event_id) = response["p1"].event_id

\* The step is the registration of ws by connect.
IsConnect(ws) ==
    wsState[ws] \in {"idle", "closed"} /\ wsState'[ws] = "registered"

\* The lock is free whenever a handler stands at an await, so no session
\* write happens under it; and while a push stands in its write loop a
\* connect and a disconnect of any session can run.
LockFreeAtAwaits ==
    /\ lock = "free"
    /\ \A p \in Procs :
          (pc[p] = "write" /\ todo[p] # {}) =>
              \A ws \in Sessions :
                  /\ (/\ wsState[ws] \in {"idle", "closed"}
                      /\ \A q \in Procs : ws \notin connections[q])
                        => ENABLED Connect(ws, "u1")
                  /\ (wsState[ws] = "live" /\ ~wsAlive[ws])
                        => ENABLED ReceiveDisconnect(ws)

\* The registry changes only in the locked block of a connect, a disconnect
\* or the cleanup of a push, each entered with the lock free, the snapshot is
\* taken with the lock free too, and no step both changes the registry and
\* writes to a session.
RegistryChangesUnderLock ==
    /\ active_connections' # active_connections =>
          /\ lock = "free"
          /\ written' = written \/ \E ws \in Sessions : IsConnect(ws)
          /\ \/ \E ws \in Sessions : IsConnect(ws) \/ IsDisconnect(ws)
             \/ \E p \in Procs : IsPushCleanup(p)
    /\ \A p \in Procs : IsPushSnapshot(p) => lock = "free"
    /\ \A p \in Procs, ws \in Sessions :
          IsPushAttempt(p, ws) =>
              lock = "free" /\ active_connections' = active_connections

\* C18: every insertion into, removal from and snapshot of the registry map
\* happens under the registry lock and no session write does, so while a
\* push is blocked in a session write, connect and disconnect of any session
\* can still complete.
C18_LockNotHeldAcrossWrites ==
    []LockFreeAtAwaits /\ [][RegistryChangesUnderLock]_vars

\* A second device registered while a push, whose snapshot does not hold
\* it, still had a write to make.
C18_Witness ==
    /\ pc["p1"] = "write"
    /\ todo["p1"] # {}
    /\ "s2" \notin connections["p1"]
    /\ "s2" \in Snapshot("u1")

\* The backfill of ws stopped at a failed write, items of its list unsent.
BackfillFailed(ws) ==
    wsState[ws] = "live" /\ sent[ws] < Len(pending_events[ws])

\* C19: when a write fails partway through the connect backfill, no further
\* backfill item is written to the session and the session is treated as
\* dead: it is out of the registry, so that no later push snapshot holds it.
C19_FailedBackfillUnregisters ==
    \A ws \in Sessions :
        BackfillFailed(ws) =>
            /\ Len(BackfillItems(ws)) = sent[ws]
            /\ ws \notin Snapshot(wsUser[ws])

\* C20: when the store cannot be read during a connect backfill, the
\* connecting session is treated as dead, out of the registry, and is not
\* left registered as a live session that skipped its backfill.
C20_FailedReadUnregisters ==
    \A ws \in read_failed :
        wsState[ws] = "live" => ws \notin Snapshot(wsUser[ws])

\* C21: when the backing store is unreachable, get_pending_events,
\* acknowledge_event, cleanup_expired_events and get_event_by_id report to
\* their caller an outcome that none of them reports when the store is
\* reachable (an empty list, not found, zero deleted, no such event).
C21_FailuresDistinguishable ==
    \A failed, normal \in outcomes :
        (failed.op = normal.op /\ failed.raised /\ ~normal.raised)
            => failed.result # normal.result

\* A lookup returns the Event of a stored document with the event_id and
\* the recipient_id asked for, and None when there is none, a document with
\* that event_id and another recipient_id included.
LookupScoped ==
    \A event_id \in AckIds, recipient_id \in Users :
        LET own == {d \in store : /\ StrToUuid(d.event_id) = event_id
                                   /\ d.recipient_id = recipient_id}
        IN  /\ own = {} => get_event_by_id(event_id, recipient_id) = {None}
            /\ \A result \in get_event_by_id(event_id, recipient_id) :
                  result # None =>
                      /\ result.recipient_id = recipient_id
                      /\ result.event_id = event_id
                      /\ \E d \in own : result = DocToEvent(d)

\* An ACK frame on a connection deletes nothing but a document addressed to
\* the user of the connection, with the event_id of the frame, and writes
\* nothing to any session.
AckScoped ==
    \A ws \in Sessions, event_id \in AckIds :
        ReceiveAck(ws, event_id) =>
            /\ \A d \in store \ store' :
                  /\ d.recipient_id = wsUser[ws]
                  /\ StrToUuid(d.event_id) = event_id
            /\ store' \subseteq store
            /\ written' = written

\* C22: get_event_by_id(event_id, R) returns an event only if its
\* recipient_id is R, acknowledge_event with recipient R deletes only an
\* event whose recipient_id is R, and since the endpoint builds every ACK
\* with the connection's own user_id, a frame received on the connection of
\* user U never deletes or reveals an event addressed to another user.
C22_RecipientIsolation == []LookupScoped /\ [][AckScoped]_vars

\* The device of one user sent an ACK naming an event stored for the other
\* user: the ACK found nothing, the event is still stored, and a lookup of
\* it for the user of the device returns None.
C22_Witness ==
    /\ lastAck.ws = "s1"
    /\ wsState["s1"] = "live"
    /\ lastAck.success = FALSE
    /\ \E d \in store :
          /\ StrToUuid(d.event_id) = lastAck.event_id
          /\ d.recipient_id # wsUser["s1"]
          /\ get_event_by_id(lastAck.event_id, wsUser["s1"]) = {None}
          /\ get_event_by_id(lastAck.event_id, d.recipient_id)
                = {DocToEvent(d)}

\* The step is the insert_one of the request of p, stored.
IsInsert(p) == pc[p] = "insert" /\ pc'[p] = "push"

\* The user_id has the same documents, the same next sequence and the same
\* sessions after the step as before.
RecipientUntouched(user_id) ==
    /\ DocsOf(user_id)' = DocsOf(user_id)
    /\ NextSequence(user_id)' = NextSequence(user_id)
    /\ Snapshot(user_id)' = Snapshot(user_id)

\* An insert for a recipient and an ACK on a connection of a user leave every
\* other user as it is, and an insert adds one document, of its recipient.
EnqueueAndAckTouchOneRecipient ==
    /\ \A p \in Procs :
          IsInsert(p) =>
              /\ \A v \in Users \ {event[p].recipient_id} :
                    RecipientUntouched(v)
              /\ store' = store \cup {event_doc[p]}
              /\ event_doc[p].recipient_id = event[p].recipient_id
    /\ \A ws \in Sessions, event_id \in AckIds :
          ReceiveAck(ws, event_id) =>
              \A v \in Users \ {wsUser[ws]} : RecipientUntouched(v)

\* The first event inserted for a recipient has sequence 1, whatever was
\* inserted for the other recipients before.
FirstSequenceIsOne ==
    \A j \in 1 .. Len(inserted) :
        (\A i \in 1 .. (j - 1) :
            inserted[i].recipient_id # inserted[j].recipient_id)
            => inserted[j].sequence = 1

\* C30: enqueue_event and acknowledge_event for recipient U leave the stored
\* events, the next sequence value and the registered sessions of every
\* other recipient V unchanged, and the first event of each recipient gets
\* sequence 1 regardless of how many events other recipients have.
C30_RecipientsIndependent ==
    []FirstSequenceIsOne /\ [][EnqueueAndAckTouchOneRecipient]_vars

\* Each of the two recipients has its first event stored with sequence 1,
\* the second inserted while the first was stored.
C30_Witness ==
    /\ Len(inserted) = 2
    /\ inserted[1].recipient_id # inserted[2].recipient_id
    /\ inserted[1].sequence = 1 /\ inserted[2].sequence = 1
    /\ {inserted[1], inserted[2]} \subseteq store

\* Every stored document is pending: its acknowledged flag is false.
StoredArePending == \A d \in store : d.acknowledged = FALSE

\* A step keeps every stored document as it is or removes it, and removes it
\* only as the ACK of its event_id on a connection of its recipient or as
\* the sweep; no step stores a changed document under a stored event_id.
StoredUnmodified ==
    /\ \A d \in store :
          d \notin store' =>
              /\ \A x \in store' : x.event_id # d.event_id
              /\ \/ \E ws \in Sessions :
                       /\ wsUser[ws] = d.recipient_id
                       /\ ReceiveAck(ws, StrToUuid(d.event_id))
                 \/ CleanupExpired
    /\ \A d \in store, x \in store' : x.event_id = d.event_id => x = d

\* C23: a stored event record is never modified after insertion (its
\* acknowledged flag stays false, its sequence and ttl_expiry never change);
\* it can only disappear, and only through acknowledge_event or
\* cleanup_expired_events, so for the store each event is either pending or
\* absent in every reachable state.
C23_PendingOrAbsent == []StoredArePending /\ [][StoredUnmodified]_vars

\* The second event of the recipient is the only one stored, days after its
\* insertion and after the first one was removed, with the sequence and the
\* ttl_expiry of its insertion and not acknowledged.
C23_Witness ==
    /\ pc["p1"] = "idle"
    /\ \E d \in store :
          /\ store = {d}
          /\ d.sequence = 2
          /\ d.acknowledged = FALSE
          /\ d.ttl_expiry * 1000 = d.timestamp + EventTtlDays * 1000
          /\ d.timestamp < now * 1000

\* A request whose sender_id is not its caller ends at once with status 403:
\* its handler keeps nothing of the event, the store, the sessions and the
\* registry are as before; and a handler that answered 403 stands idle.
RejectsForeignSender ==
    \A p \in Procs, ev \in Requests, current_user \in Users :
        (ev.sender_id # current_user /\ SendEventRequest(p, ev, current_user))
            => /\ response'[p].status = 403
               /\ pc'[p] = "idle"
               /\ event'[p] = NoEvent
               /\ event_doc'[p] = NoDoc
               /\ store' = store
               /\ written' = written
               /\ active_connections' = active_connections

RejectedIsIdle ==
    \A p \in Procs :
        response[p].status = 403 => pc[p] = "idle" /\ event[p] = NoEvent

\* C24: a submission whose sender_id differs from the authenticated caller
\* is rejected before anything happens: no event is appended to the store
\* and no session is written to.
C24_SenderMismatchRejected ==
    []RejectedIsIdle /\ [][RejectsForeignSender]_vars

\* Every submission was made in the name of another user and rejected,
\* while the recipient had a session ready to be pushed to: nothing is
\* stored and nothing was written.
C24_Witness ==
    /\ budget = 0
    /\ response["p1"].status = 403
    /\ wsState["s1"] = "live" /\ wsAlive["s1"]
    /\ "s1" \in Snapshot("u1")
    /\ store = {}
    /\ written["s1"] = <<>>

\* The event_id was inserted once over the run.
InsertedOnce(event_id) ==
    Cardinality({i \in 1 .. Len(inserted) :
                    inserted[i].event_id = UuidToStr(event_id)}) = 1

\* An event acknowledged on any session of its recipient, and not submitted
\* again, is in the store for no session.
AckedIsGone ==
    \A pair \in acked :
        InsertedOnce(pair[1]) => StoredAs(pair[1], pair[2]) = {}

\* The ACK that deletes an event, on whichever session, leaves no document
\* of it for its recipient, so that no list get_pending_events returns from
\* then on, to any session of the recipient, holds it; and a connect
\* backfill reads only Events of documents that are in the store at the read.
AckDeletesForAllSessions ==
    /\ \A ws \in Sessions, event_id \in AckIds :
          (store' # store /\ ReceiveAck(ws, event_id)) =>
              /\ StoredAs(event_id, wsUser[ws])' = {}
              /\ \A evs \in get_pending_events(wsUser[ws], DefaultLimit)' :
                    \A i \in 1 .. Len(evs) : evs[i].event_id # event_id
    /\ \A ws \in Sessions :
          IsBackfillRead(ws) =>
              \A i \in 1 .. Len(pending_events'[ws]) :
                  \E d \in DocsOf(wsUser[ws]) :
                      pending_events'[ws][i] = DocToEvent(d)

\* C25: acknowledgement is global per event, not per device: once any
\* session of user U acknowledges event e, e is absent from the store for
\* all of U's sessions, and a session of U that connects afterwards does not
\* receive e in its backfill even if that session never received e.
C25_AckGlobalPerEvent == []AckedIsGone /\ [][AckDeletesForAllSessions]_vars

\* The one event of the run was written to the first device and
\* acknowledged; the second device, which read its backfill after that, read
\* an empty list and was written nothing.
C25_Witness ==
    /\ budget = 0 /\ pc["p1"] = "idle"
    /\ Len(inserted) = 1
    /\ acked = {<<StrToUuid(inserted[1].event_id), "u1">>}
    /\ WrittenEvents("s1") = <<DocToEvent(inserted[1])>>
    /\ wsState["s2"] = "live" /\ wsAlive["s2"] /\ wsUser["s2"] = "u1"
    /\ "s2" \in Snapshot("u1")
    /\ pending_events["s2"] = <<>>
    /\ written["s2"] = <<>>
    /\ store = {}

\* The limits get_pending_events is asked for: below, at and above the
\* number of pending events, and the default.
Limits == {1, 2, DefaultLimit}

\* Every list get_pending_events can return for user_id and limit has
\* min(limit, number of pending events) items, each the Event of another
\* pending document of user_id, in ascending sequence order, and no pending
\* document left out has a sequence below that of an item.
PendingListShape ==
    \A user_id \in Users, limit \in Limits :
        LET pending == {d \in store : /\ d.recipient_id = user_id
                                       /\ d.acknowledged = FALSE}
        IN  \A evs \in get_pending_events(user_id, limit) :
                LET items == {evs[i] : i \in 1 .. Len(evs)}
                IN  /\ Len(evs) = Min(limit, Cardinality(pending))
                    /\ Cardinality(items) = Len(evs)
                    /\ items \subseteq {DocToEvent(d) : d \in pending}
                    /\ \A e \in items : e.recipient_id = user_id
                    /\ \A i, j \in 1 .. Len(evs) :
                          i < j => evs[i].sequence <= evs[j].sequence
                    /\ \A d \in pending :
                          DocToEvent(d) \notin items =>
                              \A e \in items : e.sequence <= d.sequence

\* The list of a session changes only when its connect clears it and when
\* its backfill reads it, with the default limit; a connection reads once:
\* past its read it does not come back to it.
BackfillFetchesOnce ==
    \A ws \in Sessions :
        /\ pending_events'[ws] # pending_events[ws] =>
              \/ IsConnect(ws) /\ pending_events'[ws] = <<>>
              \/ /\ IsBackfillRead(ws)
                 /\ pending_events'[ws]
                       \in get_pending_events(wsUser[ws], DefaultLimit)
        /\ wsState[ws] \in {"backfill", "live"} => wsState'[ws] # "fetch"
        /\ wsState'[ws] = "fetch" => wsState[ws] \in {"registered", "fetch"}

BadFrameIgnored ==
    \A ws \in Sessions, frame \in BadFrames :
        ReceiveBadFrame(ws, frame) =>
            /\ lastFrame'.logged \in {"warning", "error", "none"}
            /\ wsState'[ws] = "live"
            /\ active_connections' = active_connections
            /\ store' = store
            /\ written' = written

\* C27: a client frame that cannot be processed (invalid JSON, JSON that is
\* not an object, an ACK without a valid event_id, an unknown type) is
\* ignored: the receive loop continues, the session stays registered, and
\* the store is unchanged.
C27_BadFrameIgnored == [][BadFrameIgnored]_vars

\* A registered session whose client sent an ACK with an event_id that is
\* not a UUID is still in its receive loop, the backlog still stored.
C27_Witness ==
    /\ lastFrame.ws = "s1"
    /\ lastFrame.frame.kind = "ack_bad_event_id"
    /\ lastFrame.logged = "error"
    /\ wsState["s1"] = "live" /\ wsAlive["s1"]
    /\ "s1" \in Snapshot("u1")
    /\ store = Preloaded("u1", FramesBacklog)

\* A ping is answered with one pong frame, written to the session it came
\* on when its transport takes it, and to no other; the store, the registry
\* and every endpoint are as before.
PingAnswered ==
    \A ws \in Sessions :
        ReceivePing(ws) =>
            /\ written'[ws] = IF wsAlive[ws]
                              THEN Append(written[ws], PongFrame)
                              ELSE written[ws]
            /\ \A other \in Sessions \ {ws} :
                  written'[other] = written[other]
            /\ store' = store
            /\ active_connections' = active_connections
            /\ wsState' = wsState

\* C28: a ping frame from a client is answered with a pong on the same
\* session and changes neither the event store nor the registry.
C28_PingAnswered == [][PingAnswered]_vars

\* One of two registered devices got a pong after its backfill, the other
\* got none; the backlog is still stored.
C28_Witness ==
    /\ wsState["s1"] = "live" /\ wsState["s2"] = "live"
    /\ active_connections["u1"] = {"s1", "s2"}
    /\ Len(written["s1"]) = FramesBacklog + 1
    /\ written["s1"][FramesBacklog + 1] = PongFrame
    /\ Pongs("s2") = {}
    /\ Len(written["s2"]) = FramesBacklog
    /\ store = Preloaded("u1", FramesBacklog)

\* The stored documents whose ttl_expiry has passed.
PastExpiry == {d \in store : d.ttl_expiry < now}

\* A document past its ttl_expiry is in every list get_pending_events
\* returns for its recipient.
ExpiredStillReturned == \A d \in PastExpiry : Returned(d, DefaultLimit)

\* A document past its ttl_expiry leaves the store only by the sweep or by
\* the ACK of its event_id on a connection of its recipient, and that ACK
\* does delete it; an ACK deletes no document but the one it names; and a
\* backfill read returns every document of the user past its ttl_expiry.
OnlySweepExpires ==
    /\ \A d \in PastExpiry :
          d \notin store' =>
              \/ CleanupExpired
              \/ \E ws \in Sessions :
                    /\ wsUser[ws] = d.recipient_id
                    /\ ReceiveAck(ws, StrToUuid(d.event_id))
    /\ \A d \in PastExpiry, ws \in Sessions :
          (/\ wsUser[ws] = d.recipient_id
           /\ ReceiveAck(ws, StrToUuid(d.event_id))) => d \notin store'
    /\ \A ws \in Sessions, event_id \in AckIds :
          (store' # store /\ ReceiveAck(ws, event_id)) =>
              store' = store \ StoredAs(event_id, wsUser[ws])
    /\ \A ws \in Sessions :
          IsBackfillRead(ws) =>
              \A d \in PastExpiry :
                  d.recipient_id = wsUser[ws] =>
                      \E i \in 1 .. Len(pending_events'[ws]) :
                          pending_events'[ws][i] = DocToEvent(d)

PushOver(d) == \A p \in Procs : event_doc[p] # d

\* C31: no event is lost in the race between a submission and a connect:
\* once the submission of an event and the connect of a session of its
\* recipient are both over, in whichever order their steps interleaved, an
\* event that was neither acknowledged nor swept is among the frames written
\* to the session, by the backfill or by the live push, when no write to the
\* session failed and the backlog is within the backfill limit.
C31_NoEventLostInRace ==
    \A ws \in Sessions :
        \A d \in store :
            ( /\ BackfillComplete(ws)
              /\ wsAlive[ws]
              /\ wsUser[ws] = d.recipient_id
              /\ InsertedOnce(StrToUuid(d.event_id))
              /\ PushOver(d)
              /\ Cardinality(DocsOf(d.recipient_id)) <= DefaultLimit )
            => \E i \in 1 .. Len(written[ws]) :
                   written[ws][i].event = DocToEvent(d)

\* The push of the one stored event wrote it to the session between the
\* session's registration and its backfill read, and the backfill wrote it
\* again: the submission and the connect overlapped.
C31_Witness ==
    /\ Len(inserted) = 1
    /\ store = {inserted[1]}
    /\ PushOver(inserted[1])
    /\ BackfillComplete("s1") /\ wsAlive["s1"]
    /\ written["s1"] = <<Frame(DocToEvent(inserted[1]), "push"),
                         Frame(DocToEvent(inserted[1]), "backfill")>>

\* ConnectionManager.is_online, lines 143-145.
is_online(user_id) ==
    /\ user_id \in DOMAIN active_connections
    /\ Cardinality(active_connections[user_id]) > 0

\* ConnectionManager.get_online_users, lines 147-150: the keys of the
\* registry, read under the lock.
get_online_users == DOMAIN active_connections

\* C32: in every reachable state of the registry no user key maps to an
\* empty session set, so get_online_users returns exactly the users for
\* which is_online is true, also after a push whose cleanup removed a user's
\* last session.
C32_NoEmptyRegistryEntry ==
    /\ \A user_id \in DOMAIN active_connections :
          active_connections[user_id] # {}
    /\ get_online_users = {user_id \in Users : is_online(user_id)}

\* C33: once connect has registered a session it always proceeds to the
\* backfill step: while connect waits between the registration and its
\* lookup of the user's registry entry, the entry is there, and the lookup
\* never fails, whatever pushes to the user clean up and whichever other
\* sessions of the user disconnect meanwhile.
C33_ConnectLookupNeverFails ==
    \A ws \in Sessions :
        /\ wsState[ws] = "registered" =>
              wsUser[ws] \in DOMAIN active_connections
        /\ wsState[ws] # "crashed"

\* No two stored documents share an event_id.
StoreUniqueByEventId ==
    \A d1 \in store : \A d2 \in store :
        d1.event_id = d2.event_id => d1 = d2

\* The insert of enqueue_event for an event_id that a stored document
\* already has stores nothing, and the request ends with the failure
\* response, delivering nothing.
DuplicateInsertRefused ==
    \A p \in Procs :
        ( /\ pc[p] = "insert" /\ pc'[p] # "insert"
          /\ \E d \in store : d.event_id = event_doc[p].event_id )
        => /\ store' = store
           /\ pc'[p] = "idle"
           /\ response'[p] = [status |-> 500]
           /\ written' = written

\* C34: the store never holds two events with the same event_id: an enqueue
\* whose event_id equals that of a stored event fails, is answered with the
\* failure result and leaves the store unchanged, so resubmitting an envelope
\* while the original is pending creates no second copy.
C34_EventIdUnique == []StoreUniqueByEventId /\ [][DuplicateInsertRefused]_vars

\* Both submissions of the run carried the same event_id: one is stored,
\* the other was answered with the failure response while the first was
\* still pending.
C34_Witness ==
    /\ budget = 0
    /\ \A p \in Procs : pc[p] = "idle"
    /\ \E p \in Procs : response[p] = [status |-> 500]
    /\ \E p \in Procs : response[p].status = 200
    /\ Cardinality(store) = 1

\* The envelope a push writes is the Event of the document its request
\* stored: same event_id, sequence, timestamp and payload.
PushCarriesStoredRecord ==
    \A p \in Procs, ws \in Sessions :
        IsPushWritten(p, ws) =>
            LET f == written'[ws][Len(written'[ws])]
                d == event_doc[p]
            IN  /\ f.kind = "push"
                /\ \E i \in 1 .. Len(inserted) : inserted[i] = d
                /\ UuidToStr(f.event.event_id) = d.event_id
                /\ f.event.sequence = d.sequence
                /\ f.event.timestamp = d.timestamp
                /\ f.event.encrypted_payload = d.encrypted_payload
                /\ f.event = DocToEvent(d)

\* A backfill copy and a push copy of one event_id, written to one session,
\* are the same envelope when the event_id was submitted once.
CopiesIdentical ==
    \A ws \in Sessions :
        \A i \in 1 .. Len(written[ws]) : \A j \in 1 .. Len(written[ws]) :
            ( /\ written[ws][i].kind = "backfill"
              /\ written[ws][j].kind = "push"
              /\ written[ws][i].event.event_id = written[ws][j].event.event_id
              /\ InsertedOnce(written[ws][i].event.event_id) )
            => written[ws][i].event = written[ws][j].event

\* C35: the envelope the live push of a submission writes carries the
\* event_id, sequence, timestamp and payload of the record stored for it, so
\* the copies of one event a session gets by backfill and by live push are
\* identical, and have the same event_id and sequence.
C35_PushEqualsStoredRecord ==
    []CopiesIdentical /\ [][PushCarriesStoredRecord]_vars

\* The session was written the one event of the run twice: by its backfill,
\* which read the store after the append, and then by the push, whose
\* snapshot was taken after the registration.
C35_Witness ==
    /\ Len(inserted) = 1
    /\ wsState["s1"] = "live" /\ wsAlive["s1"]
    /\ written["s1"] = <<Frame(DocToEvent(inserted[1]), "backfill"),
                         Frame(DocToEvent(inserted[1]), "push")>>
    /\ pc["p1"] = "idle"

\* The WebSocket is in the list of its user in the chat registry.
ChatInRegistry(ws, registry) ==
    /\ ChatUserOf(ws) \in DOMAIN registry
    /\ \E i \in 1 .. Len(registry[ChatUserOf(ws)]) :
          registry[ChatUserOf(ws)][i] = ws

\* The send_json of the sending endpoint ws to another connection raises.
IsFailedChatWrite(ws) ==
    /\ chatPc[ws] = "send"
    /\ chatIter[ws].target # ws
    /\ ~chatAlive[chatIter[ws].target]
    /\ chatIter'[ws] # chatIter[ws]

\* A failed write leaves the sending endpoint registered and running, and
\* its loops go on to the next connection when there is one.
FailedChatWriteIsolated ==
    \A ws \in ChatSockets :
        IsFailedChatWrite(ws) =>
            /\ ChatInRegistry(ws, manager')
            /\ chatPc'[ws] # "closed"
            /\ Advance(chatIter[ws], manager) # NoIter =>
                  /\ chatPc'[ws] = "send"
                  /\ chatIter'[ws] = Advance(chatIter[ws], manager)

\* C36: in the legacy chat route a failed write to a recipient's connection
\* during send_personal_message or broadcast_to_group never removes the
\* sender's own connection from the registry, and the remaining connections
\* of the recipients still receive the message.
C36_FailedChatWriteIsolated == [][FailedChatWriteIsolated]_vars

====
